---- MODULE Spec2Model ----
(***************************************************************************)
(* A model of PageLayoutProcessor (src/page_layout_processor.py): the      *)
(* document tree the pipeline mutates (sections, body paragraphs, table    *)
(* cells, runs, styles), every stage of process() as a pure operator on    *)
(* that tree, and process() itself as a state machine with one action per  *)
(* stage, including the top-level except/finally.                          *)
(*                                                                         *)
(* A character is its Unicode code point and a text (a run's text, a font  *)
(* name) a sequence of code points.  An XML attribute is a string, None    *)
(* when the attribute is absent.                                           *)
(***************************************************************************)
EXTENDS Integers, Sequences, FiniteSets, TLC

VARIABLES
    pc,              \* position of process() (the stage about to run)
    files,           \* the file system outside the temp dir: path -> file
    files0,          \* the file system as process() found it
    input_path,      \* self.input_path
    output_path,     \* self.output_path
    out_writable,    \* whether output_path can be written (environment)
    temp_dir,        \* self.temp_dir: [exists, space, temp_input, temp_output]
    doc,             \* the in-memory Document being mutated
    loaded,          \* the Document exactly as Document(temp_input) returned it
    uses_nirmala_ui, \* self.uses_nirmala_ui
    si,              \* index of the section the section loop is at
    raised,          \* whether an exception reached process()'s except clause
    detect_text,     \* the argument of a direct call of _detect_script
    detect_result    \* what that call returned (None before it returns)

vars == <<pc, files, files0, input_path, output_path, out_writable, temp_dir,
          doc, loaded, uses_nirmala_ui, si, raised, detect_text, detect_result>>

\* cols.get(...) / an absent XML attribute
None == "None"

\* Python truthiness of an attribute value: None and '' are falsy
Truthy(a) == a # None /\ a # ""

----------------------------------------------------------------------------
(* Section geometry                                                        *)

\* Inches(1), in EMU as the section margin properties report it
Inches1 == 914400

\* A4 portrait in twips
A4Width == 11906
A4Height == 16838

NoPgSz == [present |-> FALSE, orient |-> None, w |-> 0, h |-> 0]

\* a variant of _set_portrait_orientation that sets w:orient and leaves the
\* page width and height as they are
SetPortraitOrientationOrientOnly(sec) ==
    [sec EXCEPT !.pgSz = [(IF sec.pgSz.present THEN sec.pgSz
                           ELSE [present |-> TRUE, orient |-> None,
                                 w |-> 0, h |-> 0])
                             EXCEPT !.orient = "portrait"]]

\* _set_portrait_orientation: get or create w:pgSz, then set the three attributes
SetPortraitOrientation(sec) ==
    LET page_size == IF ~sec.pgSz.present
                     THEN [present |-> TRUE, orient |-> None, w |-> 0, h |-> 0]
                     ELSE sec.pgSz
    IN  [sec EXCEPT !.pgSz = [page_size EXCEPT !.orient = "portrait",
                                               !.w = A4Width,
                                               !.h = A4Height]]

\* section.left_margin = Inches(1) ... section.bottom_margin = Inches(1)
SetMargins(sec) ==
    [sec EXCEPT !.margins = [left |-> Inches1, right |-> Inches1,
                             top |-> Inches1, bottom |-> Inches1]]

\* section._sectPr.remove_all("w:pgBorders"); the absence of borders is no error
RemovePageBorders(sec) == [sec EXCEPT !.pgBorders = FALSE]

----------------------------------------------------------------------------
(* Columns                                                                 *)

NoCols == [present |-> FALSE, num |-> None, space |-> None, children |-> 0]

IntLiterals == {"0", "1", "2", "3", "4"}

\* int(s) of a w:num attribute: defined on decimal literals, ValueError otherwise
ParseInt(s) ==
    CASE s = "0" -> 0 [] s = "1" -> 1 [] s = "2" -> 2 [] s = "3" -> 3
      [] s = "4" -> 4 [] OTHER -> -1

\* whether _convert_to_single_column raises (and catches) before any mutation:
\* xpath("./w:cols")[0] on a section without w:cols is an IndexError,
\* int() of a non-numeric w:num a ValueError
ColumnsRaises(sec) ==
    \/ ~sec.cols.present
    \/ Truthy(sec.cols.num) /\ sec.cols.num \notin IntLiterals

\* a variant of _convert_to_single_column that leaves the per-column entries
ConvertToSingleColumnKeepsEntries(sec) ==
    IF ColumnsRaises(sec) THEN sec
    ELSE IF (IF Truthy(sec.cols.num) THEN ParseInt(sec.cols.num) ELSE 1) > 1
    THEN [sec EXCEPT !.cols.num = "1",
                     !.cols.space = IF Truthy(@) THEN "0" ELSE @]
    ELSE sec

\* _convert_to_single_column
ConvertToSingleColumn(sec) ==
    IF ColumnsRaises(sec) THEN sec
    ELSE LET cols == sec.cols
             num_cols == IF Truthy(cols.num) THEN ParseInt(cols.num) ELSE 1
         IN  IF num_cols > 1
             THEN [sec EXCEPT !.cols =
                      [present |-> TRUE,
                       num |-> "1",
                       space |-> IF Truthy(cols.space) THEN "0" ELSE cols.space,
                       children |-> 0]]
             ELSE sec

----------------------------------------------------------------------------
(* Watermark artifacts of a section's properties                           *)

\* hasattr(section._sectPr, 'get_or_add_background'): the section-properties
\* element class declares no background child, so the guard is false
HasGetOrAddBackground == FALSE

\* Element.findall with a prefixed tag ('.//w:pict', './/w:headerReference')
\* and no namespace map raises SyntaxError (prefix not found in prefix map);
\* a tag in {uri}name notation needs no map
FindallRaises(path) == path \in {".//w:pict", ".//w:headerReference"}

\* _remove_watermark: each removal in its own try/except
RemoveWatermark(sec) ==
    LET s1 == IF HasGetOrAddBackground
              THEN [sec EXCEPT !.wm.background = FALSE] ELSE sec
        s2 == IF FindallRaises(".//{urn:schemas-microsoft-com:vml}shape")
              THEN s1 ELSE [s1 EXCEPT !.wm.vml = FALSE]
        s3 == IF FindallRaises(".//w:pict")
              THEN s2 ELSE [s2 EXCEPT !.wm.pict = FALSE]
        s4 == IF FindallRaises(".//w:headerReference")
              THEN s3 ELSE [s3 EXCEPT !.header.ref = None,
                                      !.header.paras = <<>>]
    IN  [s4 EXCEPT !.wm.documentBackground = FALSE]

----------------------------------------------------------------------------
(* Paragraphs, runs, styles                                                *)

NoSpacing == [present |-> FALSE, line |-> 0, rule |-> None]

NoPosH == [present |-> FALSE, relativeFrom |-> None, align |-> None]

\* a run: its text, its font name ("" when run.font.name is None) and the
\* pictures it embeds
Run(text, font) == [text |-> text, font |-> font, pics |-> <<>>]

\* a paragraph with the given runs and no paragraph formatting of its own
Para(runs) == [runs |-> runs, align |-> None, spacing |-> NoSpacing]

\* the single empty paragraph of the header/footer part a new definition gets
DefaultHdrFtrParas == << Para(<<>>) >>

----------------------------------------------------------------------------
(* Headers and footers.  hf is "header" or "footer"; sec[hf].ref is None   *)
(* (linked to previous), "ok" (a reference to a part holding paras) or     *)
(* "dangling" (a reference whose relationship is missing in the package).  *)

\* _has_definition, and so "not is_linked_to_previous"
HasDefinition(sec, hf) == sec[hf].ref # None

RECURSIVE Owner(_, _, _)
\* the section whose definition section i's header/footer resolves to:
\* its own, else the nearest prior section's; 0 when no section up to i has one
Owner(secs, i, hf) ==
    IF i = 0 THEN 0
    ELSE IF HasDefinition(secs[i], hf) THEN i
    ELSE Owner(secs, i - 1, hf)

\* section.header.is_linked_to_previous = True: drops the section's own definition
SetLinkedToPrevious(secs, i, hf) ==
    IF HasDefinition(secs[i], hf)
    THEN [secs EXCEPT ![i][hf] = [ref |-> None, paras |-> <<>>]]
    ELSE secs

\* section.header.paragraphs reaches the resolved definition; when no section up
\* to i has one, the first section gets a new definition
GetOrAddDefinition(secs, i, hf) ==
    IF Owner(secs, i, hf) = 0
    THEN [secs EXCEPT ![1][hf] = [ref |-> "ok", paras |-> DefaultHdrFtrParas]]
    ELSE secs

\* whether lines 54-58 (header) or 61-65 (footer) raise: dropping a definition
\* whose relationship is missing, or reading the part of one, is a KeyError
HeaderFooterRaises(secs, i, hf) ==
    \/ secs[i][hf].ref = "dangling"
    \/ LET s1 == SetLinkedToPrevious(secs, i, hf)
           j == Owner(s1, i, hf)
       IN  j # 0 /\ s1[j][hf].ref = "dangling"

\* lines 54-58 / 61-65: link to previous, then remove every paragraph that
\* section.header.paragraphs lists
RemoveHeaderFooter(secs, i, hf) ==
    LET s1 == SetLinkedToPrevious(secs, i, hf)
        s2 == GetOrAddDefinition(s1, i, hf)
        o == Owner(s2, i, hf)
    IN  [s2 EXCEPT ![o][hf].paras = <<>>]

----------------------------------------------------------------------------
(* Line spacing                                                            *)

\* str(int(240 * 1.15)): 1.15 as the ratio 115/100, int() truncating
XmlLine == (240 * 115) \div 100

\* paragraph_format.line_spacing = 1.15: the library writes w:spacing with
\* w:line = 1.15 lines in twips and w:lineRule = auto, creating pPr and
\* w:spacing when absent
SetLineSpacingProperty(spacing) ==
    [present |-> TRUE, line |-> (240 * 115) \div 100, rule |-> "auto"]

\* a variant of _apply_spacing_to_paragraph that leaves an existing w:spacing
\* element as it is
ApplySpacingToParagraphOnlyWhenAbsent(p) ==
    IF p.spacing.present THEN p
    ELSE [p EXCEPT !.spacing = [present |-> TRUE, line |-> (240 * 115) \div 100,
                                rule |-> "auto"]]

\* _apply_spacing_to_paragraph
ApplySpacingToParagraph(p) ==
    LET s1 == SetLineSpacingProperty(p.spacing)
        s2 == IF ~s1.present
              THEN [present |-> TRUE, line |-> XmlLine, rule |-> "auto"]
              ELSE [s1 EXCEPT !.line = XmlLine, !.rule = "auto"]
    IN  [p EXCEPT !.spacing = s2]

\* hasattr(style, 'paragraph_format'): paragraph and table styles have it,
\* character and numbering styles do not
HasParagraphFormat(style) == style.kind \in {"paragraph", "table"}

SpacingOnParas(paras) ==
    [k \in 1..Len(paras) |-> ApplySpacingToParagraph(paras[k])]

\* lines 403-407: every paragraph of every cell of every table
SpacingOnTables(tables) ==
    [t \in 1..Len(tables) |->
        [c \in 1..Len(tables[t]) |-> SpacingOnParas(tables[t][c])]]

RECURSIVE SpacingOnSections(_, _)
\* lines 410-418: for each section in order, the paragraphs of its resolved
\* header, then of its resolved footer
SpacingOnSections(secs, i) ==
    IF i > Len(secs) THEN secs
    ELSE LET h1 == GetOrAddDefinition(secs, i, "header")
             ho == Owner(h1, i, "header")
             h2 == [h1 EXCEPT ![ho].header.paras = SpacingOnParas(@)]
             f1 == GetOrAddDefinition(h2, i, "footer")
             fo == Owner(f1, i, "footer")
             f2 == [f1 EXCEPT ![fo].footer.paras = SpacingOnParas(@)]
         IN  SpacingOnSections(f2, i + 1)

\* _set_line_spacing
SetLineSpacing(d) ==
    [d EXCEPT
        !.styles = [k \in 1..Len(@) |->
                       IF HasParagraphFormat(@[k])
                       THEN [@[k] EXCEPT !.spacing = SetLineSpacingProperty(@)]
                       ELSE @[k]],
        !.body = SpacingOnParas(@),
        !.tables = SpacingOnTables(@),
        !.sections = SpacingOnSections(@, 1)]

----------------------------------------------------------------------------
(* Images.  A picture is [path, posH]: path lists the element names from   *)
(* the child of w:drawing down to pic:pic, posH is the wp:positionH of a   *)
(* floating placement.                                                     *)

InlinePath == <<"inline", "graphic", "graphicData", "pic">>
AnchorPath == <<"anchor", "graphic", "graphicData", "pic">>

\* _has_image: some run holds a pic:pic
HasImage(p) == \E r \in 1..Len(p.runs) : Len(p.runs[r].pics) > 0

\* pic.getparent().getparent(): the element two levels above pic:pic
Drawing(pic) == pic.path[Len(pic.path) - 2]

\* lines 302-322, one picture
ProcessPicture(pic) ==
    IF Drawing(pic) = "inline" THEN pic
    ELSE IF Drawing(pic) = "anchor" /\ pic.posH.present
    THEN [pic EXCEPT !.posH.relativeFrom = "margin",
                     !.posH.align = IF @ # None THEN "center" ELSE @]
    ELSE pic

\* _process_paragraph_images
ProcessParagraphImages(p) ==
    [p EXCEPT !.align = "center",
              !.runs = [r \in 1..Len(@) |->
                          [@[r] EXCEPT !.pics =
                              [k \in 1..Len(@) |-> ProcessPicture(@[k])]]]]

ImagesOnParas(paras) ==
    [k \in 1..Len(paras) |->
        IF HasImage(paras[k]) THEN ProcessParagraphImages(paras[k])
        ELSE paras[k]]

\* _process_images
ProcessImages(d) ==
    [d EXCEPT
        !.body = ImagesOnParas(@),
        !.tables = [t \in 1..Len(@) |->
                      [c \in 1..Len(@[t]) |-> ImagesOnParas(@[t][c])]]]

----------------------------------------------------------------------------
(* Characters.  A character is its Unicode code point; a string (a run's   *)
(* text, a font name) is a sequence of code points.                        *)

\* str.isspace(), which str.strip() and the pattern class \s go by
Whitespace ==
    {9, 10, 11, 12, 13, 28, 29, 30, 31, 32, 133, 160, 5760}
        \cup (8192..8202) \cup {8232, 8233, 8239, 8287, 12288}

AsciiUpper == 65..90
AsciiLower == 97..122
AsciiDigits == 48..57

RECURSIVE SetMin(_)
SetMin(S) == LET x == CHOOSE x \in S : TRUE
             IN  IF S = {x} THEN x
                 ELSE LET m == SetMin(S \ {x}) IN IF x < m THEN x ELSE m

RECURSIVE SetMax(_)
SetMax(S) == LET x == CHOOSE x \in S : TRUE
             IN  IF S = {x} THEN x
                 ELSE LET m == SetMax(S \ {x}) IN IF x > m THEN x ELSE m

\* str.strip(): without its leading and trailing whitespace
Strip(t) ==
    LET keep == {i \in 1..Len(t) : t[i] \notin Whitespace}
    IN  IF keep = {} THEN <<>> ELSE SubSeq(t, SetMin(keep), SetMax(keep))

\* str.lower() (of a font name: ASCII letters)
Lower(t) == [i \in 1..Len(t) |-> IF t[i] \in AsciiUpper THEN t[i] + 32 ELSE t[i]]

----------------------------------------------------------------------------
(* Script classification                                                   *)

\* the one-character members of sutonnymj_chars (lines 197-207): A-Z, a-z,
\* the special characters of line 202 and of line 204; the members of more
\* than one character never equal a character of the text
SutonnyChars ==
    AsciiUpper \cup AsciiLower
        \cup {8224, 352, 8225, 255, 168, 169, 174, 175} \cup (176..191)
        \cup (200..208) \cup (210..223)

\* the markers of line 221
BengaliMarkers == {8224, 352, 8225, 255, 169, 174}

\* [\u0980-\u09FF\u200C\u200D]
BengaliUnicode == (2432..2559) \cup {8204, 8205}

\* [\u0600-\u06FF\u0750-\u077F\u08A0-\u08FF\uFB50-\uFDFF\uFE70-\uFEFF]
ArabicUnicode ==
    (1536..1791) \cup (1872..1919) \cup (2208..2303) \cup (64336..65023)
        \cup (65136..65279)

\* [a-zA-Z0-9\s\.,!?\'\"()-]
EnglishClass ==
    AsciiUpper \cup AsciiLower \cup AsciiDigits \cup Whitespace
        \cup {46, 44, 33, 63, 39, 34, 40, 41, 45}

\* a variant of _detect_script whose percentage test is >= 10
DetectScriptAtLeastTenPercent(text) ==
    LET count == Cardinality({i \in 1..Len(text) : text[i] \in SutonnyChars})
        total_length == Len(Strip(text))
    IN  IF total_length = 0 THEN "english"
        ELSE IF (\E i \in 1..Len(text) : text[i] \in BengaliMarkers)
                \/ count * 100 >= 10 * total_length
        THEN "bengali"
        ELSE IF \E i \in 1..Len(text) : text[i] \in BengaliUnicode THEN "bengali"
        ELSE IF \E i \in 1..Len(text) : text[i] \in ArabicUnicode THEN "arabic"
        ELSE IF \A i \in 1..Len(text) : text[i] \in EnglishClass THEN "english"
        ELSE IF count > 0 THEN "bengali"
        ELSE "english"

\* _detect_script; the percentage test (count / total) * 100 > 10 in integers
DetectScript(text) ==
    LET bengali_char_count ==
            Cardinality({i \in 1..Len(text) : text[i] \in SutonnyChars})
        total_length == Len(Strip(text))
        has_bengali_markers == \E i \in 1..Len(text) : text[i] \in BengaliMarkers
    IN  IF total_length = 0 THEN "english"
        ELSE IF has_bengali_markers \/ bengali_char_count * 100 > 10 * total_length
        THEN "bengali"
        ELSE IF \E i \in 1..Len(text) : text[i] \in BengaliUnicode THEN "bengali"
        ELSE IF \E i \in 1..Len(text) : text[i] \in ArabicUnicode THEN "arabic"
        ELSE IF \A i \in 1..Len(text) : text[i] \in EnglishClass THEN "english"
        ELSE IF bengali_char_count > 0 THEN "bengali"
        ELSE "english"

----------------------------------------------------------------------------
(* Font substitution                                                       *)

\* 'Nirmala UI'
NirmalaUI == <<78, 105, 114, 109, 97, 108, 97, 32, 85, 73>>
\* 'Kalpurush'
Kalpurush == <<75, 97, 108, 112, 117, 114, 117, 115, 104>>
\* 'Al Majeed Quranic'
AlMajeedQuranic ==
    <<65, 108, 32, 77, 97, 106, 101, 101, 100, 32, 81, 117, 114, 97, 110, 105, 99>>
\* 'SutonnyMJ'
SutonnyMJ == <<83, 117, 116, 111, 110, 110, 121, 77, 74>>
\* 'Times New Roman'
TimesNewRoman ==
    <<84, 105, 109, 101, 115, 32, 78, 101, 119, 32, 82, 111, 109, 97, 110>>

\* ['al majeed quranic', 'almajeedquranic']
ArabicFontNames ==
    { <<97, 108, 32, 109, 97, 106, 101, 101, 100, 32, 113, 117, 114, 97, 110, 105, 99>>,
      <<97, 108, 109, 97, 106, 101, 101, 100, 113, 117, 114, 97, 110, 105, 99>> }
\* ['sutonnymj', 'sutonny mj']
BengaliFontNames ==
    { <<115, 117, 116, 111, 110, 110, 121, 109, 106>>,
      <<115, 117, 116, 111, 110, 110, 121, 32, 109, 106>> }
\* ['times new roman', 'timesnewroman']
EnglishFontNames ==
    { <<116, 105, 109, 101, 115, 32, 110, 101, 119, 32, 114, 111, 109, 97, 110>>,
      <<116, 105, 109, 101, 115, 110, 101, 119, 114, 111, 109, 97, 110>> }

\* every run of the main body, then of every table cell
AllRuns(d) ==
    UNION {{d.body[k].runs[r] : r \in 1..Len(d.body[k].runs)}
                : k \in 1..Len(d.body)}
    \cup UNION {UNION {UNION {
            {d.tables[t][c][k].runs[r] : r \in 1..Len(d.tables[t][c][k].runs)}
                : k \in 1..Len(d.tables[t][c])}
                : c \in 1..Len(d.tables[t])}
                : t \in 1..Len(d.tables)}

\* a variant of _check_for_nirmala_ui that looks at the main body only
CheckForNirmalaUIBodyOnly(d, flag) ==
    IF \E k \in 1..Len(d.body) :
          \E r \in 1..Len(d.body[k].runs) : d.body[k].runs[r].font = NirmalaUI
    THEN TRUE ELSE flag

\* _check_for_nirmala_ui: the value self.uses_nirmala_ui has afterwards
CheckForNirmalaUI(d, flag) ==
    IF \E run \in AllRuns(d) : run.font = NirmalaUI THEN TRUE ELSE flag

\* lines 142-188, one run
ProcessRunFont(run, flag) ==
    IF Strip(run.text) = <<>> THEN run
    ELSE LET script_type == DetectScript(run.text)
             current_font == run.font
         IN  IF flag
             THEN IF script_type \in {"bengali", "english"}
                  THEN IF current_font # Kalpurush
                       THEN [run EXCEPT !.font = Kalpurush] ELSE run
                  ELSE IF script_type = "arabic"
                  THEN IF Lower(current_font) \notin ArabicFontNames
                       THEN [run EXCEPT !.font = AlMajeedQuranic] ELSE run
                  ELSE run
             ELSE IF script_type = "bengali"
                  THEN IF Lower(current_font) \notin BengaliFontNames
                       THEN [run EXCEPT !.font = SutonnyMJ] ELSE run
                  ELSE IF script_type = "english"
                  THEN IF Lower(current_font) \notin EnglishFontNames
                       THEN [run EXCEPT !.font = TimesNewRoman] ELSE run
                  ELSE IF script_type = "arabic"
                  THEN IF Lower(current_font) \notin ArabicFontNames
                       THEN [run EXCEPT !.font = AlMajeedQuranic] ELSE run
                  ELSE run

\* _process_paragraph_fonts
ProcessParagraphFonts(p, flag) ==
    [p EXCEPT !.runs = [r \in 1..Len(p.runs) |-> ProcessRunFont(p.runs[r], flag)]]

FontsOnParas(paras, flag) ==
    [k \in 1..Len(paras) |-> ProcessParagraphFonts(paras[k], flag)]

\* _process_fonts
ProcessFonts(d, flag) ==
    [d EXCEPT
        !.body = FontsOnParas(d.body, flag),
        !.tables = [t \in 1..Len(d.tables) |->
                      [c \in 1..Len(d.tables[t]) |->
                          FontsOnParas(d.tables[t][c], flag)]]]

----------------------------------------------------------------------------
(* Regular expressions.  A pattern is a tree of records:                   *)
(*   Cls(S) / NCls(S)   one character in / not in the set S                *)
(*   Lit(str)           the characters of str in order                     *)
(*   Cat(<<r1, ...>>)   r1 then r2 ...                                     *)
(*   Alt(<<r1, ...>>)   r1 | r2 | ..., the first alternative preferred     *)
(*   Rep(r, lo, hi)     r{lo,hi}, greedy;  RepInf(r, lo)  r{lo,}, greedy   *)
(*   NegBehind(r)       (?<!r);  NegAhead(r)  (?!r)                        *)
(* A position is the number of characters before it, 0..Len(s).  ic is the *)
(* IGNORECASE flag.  The library is a backtracking matcher: Ends gives all *)
(* the positions a pattern can end at (what search() needs), OrdEnds the   *)
(* same positions in the order the matcher prefers them (what a match's    *)
(* span needs).                                                            *)

Cls(S) == [t |-> "cls", s |-> S, neg |-> FALSE]
NCls(S) == [t |-> "cls", s |-> S, neg |-> TRUE]
Lit(str) == [t |-> "lit", s |-> str]
Cat(rs) == [t |-> "cat", rs |-> rs]
Alt(rs) == [t |-> "alt", rs |-> rs]
Rep(r, lo, hi) == [t |-> "rep", r |-> r, lo |-> lo, hi |-> hi, inf |-> FALSE]
RepInf(r, lo) == [t |-> "rep", r |-> r, lo |-> lo, hi |-> 0, inf |-> TRUE]
Opt(r) == Rep(r, 0, 1)
NegBehind(r) == [t |-> "nb", r |-> r]
NegAhead(r) == [t |-> "na", r |-> r]

\* the other case of an ASCII letter (IGNORECASE on the characters the
\* patterns name)
SwapCase(c) ==
    IF c \in AsciiUpper THEN c + 32 ELSE IF c \in AsciiLower THEN c - 32 ELSE c

CharEq(a, c, ic) == a = c \/ (ic /\ SwapCase(a) = c)

InClass(r, c, ic) ==
    LET hit == c \in r.s \/ (ic /\ SwapCase(c) \in r.s)
    IN  IF r.neg THEN ~hit ELSE hit

\* whether the literal str stands at position i of s
LitAt(str, s, i, ic) ==
    /\ i + Len(str) <= Len(s)
    /\ \A k \in 1..Len(str) : CharEq(str[k], s[i + k], ic)

RECURSIVE Ends(_, _, _, _)
RECURSIVE EndsCat(_, _, _, _, _)
RECURSIVE EndsRep(_, _, _, _, _, _, _)

\* the positions r can end at when started at a position of I
Ends(r, s, I, ic) ==
    CASE r.t = "cls" ->
            {i + 1 : i \in {j \in I : j < Len(s) /\ InClass(r, s[j + 1], ic)}}
      [] r.t = "lit" ->
            {i + Len(r.s) : i \in {j \in I : LitAt(r.s, s, j, ic)}}
      [] r.t = "cat" -> EndsCat(r.rs, 1, s, I, ic)
      [] r.t = "alt" -> UNION {Ends(r.rs[k], s, I, ic) : k \in 1..Len(r.rs)}
      [] r.t = "rep" -> EndsRep(r.r, r.lo, r.hi, r.inf, s, I, ic)
      [] r.t = "nb" -> {i \in I : i \notin Ends(r.r, s, 0..i, ic)}
      [] r.t = "na" -> {i \in I : Ends(r.r, s, {i}, ic) = {}}

EndsCat(rs, k, s, I, ic) ==
    IF k > Len(rs) \/ I = {} THEN I
    ELSE EndsCat(rs, k + 1, s, Ends(rs[k], s, I, ic), ic)

EndsRep(x, lo, hi, inf, s, I, ic) ==
    IF I = {} THEN {}
    ELSE IF lo > 0
    THEN EndsRep(x, lo - 1, IF inf THEN hi ELSE hi - 1, inf, s,
                 Ends(x, s, I, ic), ic)
    ELSE IF ~inf /\ hi = 0 THEN I
    ELSE I \cup EndsRep(x, 0, IF inf THEN hi ELSE hi - 1, inf, s,
                        Ends(x, s, I, ic) \ I, ic)

\* re.search(pattern, text): a match starts somewhere
Search(r, s, ic) == Ends(r, s, 0..Len(s), ic) # {}

\* a sequence without the later occurrences of its elements
RECURSIVE Dedupe(_)
Dedupe(q) ==
    IF q = <<>> THEN <<>>
    ELSE LET front == Dedupe(SubSeq(q, 1, Len(q) - 1))
             last == q[Len(q)]
         IN  IF \E k \in 1..Len(front) : front[k] = last THEN front
             ELSE Append(front, last)

RECURSIVE OrdEnds(_, _, _, _)
RECURSIVE OrdFrom(_, _, _, _, _)
RECURSIVE OrdCat(_, _, _, _, _)
RECURSIVE OrdAlt(_, _, _, _, _)
RECURSIVE OrdRep(_, _, _, _, _, _, _)

\* the positions r can end at when started at i, most preferred first
OrdEnds(r, s, i, ic) ==
    CASE r.t = "cls" ->
            IF i < Len(s) /\ InClass(r, s[i + 1], ic) THEN <<i + 1>> ELSE <<>>
      [] r.t = "lit" -> IF LitAt(r.s, s, i, ic) THEN <<i + Len(r.s)>> ELSE <<>>
      [] r.t = "cat" -> OrdCat(r.rs, 1, s, <<i>>, ic)
      [] r.t = "alt" -> Dedupe(OrdAlt(r.rs, 1, s, i, ic))
      [] r.t = "rep" -> OrdRep(r.r, r.lo, r.hi, r.inf, s, i, ic)
      [] r.t = "nb" -> IF i \notin Ends(r.r, s, 0..i, ic) THEN <<i>> ELSE <<>>
      [] r.t = "na" -> IF Ends(r.r, s, {i}, ic) = {} THEN <<i>> ELSE <<>>

\* r started at each position of the list starts in turn
OrdFrom(r, s, starts, k, ic) ==
    IF k > Len(starts) THEN <<>>
    ELSE OrdEnds(r, s, starts[k], ic) \o OrdFrom(r, s, starts, k + 1, ic)

OrdCat(rs, k, s, starts, ic) ==
    IF k > Len(rs) \/ starts = <<>> THEN starts
    ELSE OrdCat(rs, k + 1, s, Dedupe(OrdFrom(rs[k], s, starts, 1, ic)), ic)

OrdAlt(rs, k, s, i, ic) ==
    IF k > Len(rs) THEN <<>>
    ELSE OrdEnds(rs[k], s, i, ic) \o OrdAlt(rs, k + 1, s, i, ic)

\* greedy repetition: one more x (which must consume) before stopping here
OrdRep(x, lo, hi, inf, s, i, ic) ==
    LET nhi == IF inf THEN hi ELSE hi - 1
        once == OrdEnds(x, s, i, ic)
        more == SelectSeq(once, LAMBDA e : e > i)
        RECURSIVE Then(_)
        Then(k) == IF k > Len(more) THEN <<>>
                   ELSE OrdRep(x, IF lo > 0 THEN lo - 1 ELSE 0, nhi, inf, s,
                               more[k], ic) \o Then(k + 1)
    IN  IF lo > 0 THEN Dedupe(Then(1))
        ELSE IF ~inf /\ hi = 0 THEN <<i>>
        ELSE Dedupe(Then(1) \o <<i>>)

RECURSIVE FindIter(_, _, _, _)
\* re.finditer(pattern, s): the spans <<start, end>> of the successive
\* non-overlapping matches from pos on, leftmost first
FindIter(r, s, pos, ic) ==
    LET starts == {i \in pos..Len(s) : OrdEnds(r, s, i, ic) # <<>>}
    IN  IF starts = {} THEN <<>>
        ELSE LET start == SetMin(starts)
                 end == Head(OrdEnds(r, s, start, ic))
             IN  <<  <<start, end>> >>
                 \o (IF end > start THEN FindIter(r, s, end, ic)
                     ELSE IF start < Len(s) THEN FindIter(r, s, start + 1, ic)
                     ELSE <<>>)

----------------------------------------------------------------------------
(* The pattern libraries of the two scrubber passes, written as trees.     *)

\* \d: the decimal digits (ASCII, Arabic-Indic, Extended Arabic-Indic,
\* Devanagari, Bengali)
Digits ==
    AsciiDigits \cup (1632..1641) \cup (1776..1785) \cup (2406..2415)
        \cup (2534..2543)

\* \w: letters, marks, digits and the underscore (ASCII, Latin-1, Bengali)
WordChars ==
    AsciiUpper \cup AsciiLower \cup Digits \cup {95, 170, 181, 186}
        \cup (192..214) \cup (216..246) \cup (248..255)
        \cup (2433..2545) \cup {2556}

\* patterns['phone'] (lines 485-515)
PhonePatterns ==
    <<
      \* (?<!\d)01\d{3}[-\s]?\d{6}(?!\d)
      Cat(<<NegBehind(Cls(Digits)), Lit(<<48, 49>>), Rep(Cls(Digits), 3, 3),
          Opt(Cls({45} \cup Whitespace)), Rep(Cls(Digits), 6, 6),
          NegAhead(Cls(Digits))>>),
      \* (?<!\d)01\d{2}[-\s]?\d{7}(?!\d)
      Cat(<<NegBehind(Cls(Digits)), Lit(<<48, 49>>), Rep(Cls(Digits), 2, 2),
          Opt(Cls({45} \cup Whitespace)), Rep(Cls(Digits), 7, 7),
          NegAhead(Cls(Digits))>>),
      \* (?<!\d)01\d{1}[-\s]?\d{8}(?!\d)
      Cat(<<NegBehind(Cls(Digits)), Lit(<<48, 49>>), Rep(Cls(Digits), 1, 1),
          Opt(Cls({45} \cup Whitespace)), Rep(Cls(Digits), 8, 8),
          NegAhead(Cls(Digits))>>),
      \* (?<!\d)01\d{9}(?!\d)
      Cat(<<NegBehind(Cls(Digits)), Lit(<<48, 49>>), Rep(Cls(Digits), 9, 9),
          NegAhead(Cls(Digits))>>),
      \* (?<!\d)01\d{3}[-]\d{3}[-]\d{3}(?!\d)
      Cat(<<NegBehind(Cls(Digits)), Lit(<<48, 49>>), Rep(Cls(Digits), 3, 3),
          Cls({45}), Rep(Cls(Digits), 3, 3), Cls({45}), Rep(Cls(Digits), 3,
          3), NegAhead(Cls(Digits))>>),
      \* (?<!\d)01\d{2}[-]\d{3}[-]\d{4}(?!\d)
      Cat(<<NegBehind(Cls(Digits)), Lit(<<48, 49>>), Rep(Cls(Digits), 2, 2),
          Cls({45}), Rep(Cls(Digits), 3, 3), Cls({45}), Rep(Cls(Digits), 4,
          4), NegAhead(Cls(Digits))>>),
      \* (?<!\d)01\d{4}[-]\d{6}(?!\d)
      Cat(<<NegBehind(Cls(Digits)), Lit(<<48, 49>>), Rep(Cls(Digits), 4, 4),
          Cls({45}), Rep(Cls(Digits), 6, 6), NegAhead(Cls(Digits))>>),
      \* (?<!\d)\+8801\d{9}(?!\d)
      Cat(<<NegBehind(Cls(Digits)), Lit(<<43, 56, 56, 48, 49>>),
          Rep(Cls(Digits), 9, 9), NegAhead(Cls(Digits))>>),
      \* (?<!\d)8801\d{9}(?!\d)
      Cat(<<NegBehind(Cls(Digits)), Lit(<<56, 56, 48, 49>>), Rep(Cls(Digits),
          9, 9), NegAhead(Cls(Digits))>>),
      \* (?<!\d)[\u09E6\u09E7]\d{4}[-\s]?[\u09E6-\u09EF\d]{6}(?!\d)
      Cat(<<NegBehind(Cls(Digits)), Cls({2534, 2535}), Rep(Cls(Digits), 4,
          4), Opt(Cls({45} \cup Whitespace)),
          Rep(Cls((2534..2543) \cup Digits), 6, 6), NegAhead(Cls(Digits))>>),
      \* (?<!\d)[\u09E6\u09E7][\u09E6-\u09EF\d]{9}(?!\d)
      Cat(<<NegBehind(Cls(Digits)), Cls({2534, 2535}),
          Rep(Cls((2534..2543) \cup Digits), 9, 9), NegAhead(Cls(Digits))>>),
      \* (?<!\d)[+\u09EE\u09EE][\u09E6\u09E7][\u09E6-\u09EF\d]{9}(?!\d)
      Cat(<<NegBehind(Cls(Digits)), Cls({43, 2542}), Cls({2534, 2535}),
          Rep(Cls((2534..2543) \cup Digits), 9, 9), NegAhead(Cls(Digits))>>),
      \* (?:Phone|Mobile|Contact|Tel|Call|\u09AB\u09CB\u09A8|\u09AE\u09CB\u09AC\u09BE\u0987\u09B2|\u0995\u09B2|\u09AF\u09CB\u0997\u09BE\u09AF\u09CB\u0997)[\s\:]+[\+\d\-\s\u09E6-\u09EF]{8,}
      Cat(<<Alt(<<Lit(<<80, 104, 111, 110, 101>>), Lit(<<77, 111, 98, 105,
          108, 101>>), Lit(<<67, 111, 110, 116, 97, 99, 116>>), Lit(<<84,
          101, 108>>), Lit(<<67, 97, 108, 108>>), Lit(<<2475, 2507, 2472>>),
          Lit(<<2478, 2507, 2476, 2494, 2439, 2482>>), Lit(<<2453, 2482>>),
          Lit(<<2479, 2507, 2455, 2494, 2479, 2507, 2455>>)>>),
          RepInf(Cls({58} \cup Whitespace), 1), RepInf(Cls({43,
          45} \cup Digits \cup Whitespace \cup (2534..2543)), 8)>>),
      \* (?<!\d)0\d{4}[-]0?\d{5,6}(?!\d)
      Cat(<<NegBehind(Cls(Digits)), Lit(<<48>>), Rep(Cls(Digits), 4, 4),
          Cls({45}), Opt(Lit(<<48>>)), Rep(Cls(Digits), 5, 6),
          NegAhead(Cls(Digits))>>),
      \* (?<!\d)(?:013|014|015|016|017|018|019)\d{8}(?!\d)
      Cat(<<NegBehind(Cls(Digits)), Alt(<<Lit(<<48, 49, 51>>), Lit(<<48, 49,
          52>>), Lit(<<48, 49, 53>>), Lit(<<48, 49, 54>>), Lit(<<48, 49,
          55>>), Lit(<<48, 49, 56>>), Lit(<<48, 49, 57>>)>>),
          Rep(Cls(Digits), 8, 8), NegAhead(Cls(Digits))>>),
      \* (?<!\d)(?:\u09E6\u09E7\u09E9|\u09E6\u09E7\u09EA|\u09E6\u09E7\u09EB|\u09E6\u09E7\u09EC|\u09E6\u09E7\u09ED|\u09E6\u09E7\u09EE|\u09E6\u09E7\u09EF)[\u09E6-\u09EF]{8}(?!\d)
      Cat(<<NegBehind(Cls(Digits)), Alt(<<Lit(<<2534, 2535, 2537>>),
          Lit(<<2534, 2535, 2538>>), Lit(<<2534, 2535, 2539>>), Lit(<<2534,
          2535, 2540>>), Lit(<<2534, 2535, 2541>>), Lit(<<2534, 2535,
          2542>>), Lit(<<2534, 2535, 2543>>)>>), Rep(Cls((2534..2543)), 8,
          8), NegAhead(Cls(Digits))>>)
    >>

\* patterns['url']
\* (?:https?://|www\.)\S+\.(?:com|org|net|bd|edu|gov|info|biz)
UrlPattern ==
    Cat(<<Alt(<<Cat(<<Lit(<<104, 116, 116, 112>>), Opt(Lit(<<115>>)),
        Lit(<<58, 47, 47>>)>>), Lit(<<119, 119, 119, 46>>)>>),
        RepInf(NCls(Whitespace), 1), Lit(<<46>>), Alt(<<Lit(<<99, 111,
        109>>), Lit(<<111, 114, 103>>), Lit(<<110, 101, 116>>), Lit(<<98,
        100>>), Lit(<<101, 100, 117>>), Lit(<<103, 111, 118>>), Lit(<<105,
        110, 102, 111>>), Lit(<<98, 105, 122>>)>>)>>)

\* patterns['email']
\* [\w\-\.]+@[\w\-\.]+\.[a-zA-Z]{2,}
EmailPattern ==
    Cat(<<RepInf(Cls({45, 46} \cup WordChars), 1), Lit(<<64>>),
        RepInf(Cls({45, 46} \cup WordChars), 1), Lit(<<46>>),
        RepInf(Cls((97..122) \cup (65..90)), 2)>>)

\* patterns['social']
\* (?:facebook\.com|fb\.com|twitter\.com|linkedin\.com|instagram\.com)/[\w\-\.]+
SocialPattern ==
    Cat(<<Alt(<<Lit(<<102, 97, 99, 101, 98, 111, 111, 107, 46, 99, 111,
        109>>), Lit(<<102, 98, 46, 99, 111, 109>>), Lit(<<116, 119, 105, 116,
        116, 101, 114, 46, 99, 111, 109>>), Lit(<<108, 105, 110, 107, 101,
        100, 105, 110, 46, 99, 111, 109>>), Lit(<<105, 110, 115, 116, 97,
        103, 114, 97, 109, 46, 99, 111, 109>>)>>), Lit(<<47>>),
        RepInf(Cls({45, 46} \cup WordChars), 1)>>)

\* patterns['whatsapp']
\* (?:whatsapp|viber|imo)[\s\:]+\d[\d\-\s]{9,}
WhatsappPattern ==
    Cat(<<Alt(<<Lit(<<119, 104, 97, 116, 115, 97, 112, 112>>), Lit(<<118,
        105, 98, 101, 114>>), Lit(<<105, 109, 111>>)>>),
        RepInf(Cls({58} \cup Whitespace), 1), Cls(Digits),
        RepInf(Cls({45} \cup Digits \cup Whitespace), 9)>>)

\* date_patterns of is_date
DatePatterns ==
    <<
      \* \d{1,2}[-/]\d{1,2}[-/]\d{2,4}
      Cat(<<Rep(Cls(Digits), 1, 2), Cls({45, 47}), Rep(Cls(Digits), 1, 2),
          Cls({45, 47}), Rep(Cls(Digits), 2, 4)>>),
      \* \d{1,2}\s+(?:January|February|March|April|May|June|July|August|September|October|November|December)\s+\d{4}
      Cat(<<Rep(Cls(Digits), 1, 2), RepInf(Cls(Whitespace), 1),
          Alt(<<Lit(<<74, 97, 110, 117, 97, 114, 121>>), Lit(<<70, 101, 98,
          114, 117, 97, 114, 121>>), Lit(<<77, 97, 114, 99, 104>>), Lit(<<65,
          112, 114, 105, 108>>), Lit(<<77, 97, 121>>), Lit(<<74, 117, 110,
          101>>), Lit(<<74, 117, 108, 121>>), Lit(<<65, 117, 103, 117, 115,
          116>>), Lit(<<83, 101, 112, 116, 101, 109, 98, 101, 114>>),
          Lit(<<79, 99, 116, 111, 98, 101, 114>>), Lit(<<78, 111, 118, 101,
          109, 98, 101, 114>>), Lit(<<68, 101, 99, 101, 109, 98, 101,
          114>>)>>), RepInf(Cls(Whitespace), 1), Rep(Cls(Digits), 4, 4)>>),
      \* \d{4}[-/]\d{1,2}[-/]\d{1,2}
      Cat(<<Rep(Cls(Digits), 4, 4), Cls({45, 47}), Rep(Cls(Digits), 1, 2),
          Cls({45, 47}), Rep(Cls(Digits), 1, 2)>>),
      \* (?:19|20)\d{2}[-/]\d{1,2}[-/]\d{1,2}
      Cat(<<Alt(<<Lit(<<49, 57>>), Lit(<<50, 48>>)>>), Rep(Cls(Digits), 2,
          2), Cls({45, 47}), Rep(Cls(Digits), 1, 2), Cls({45, 47}),
          Rep(Cls(Digits), 1, 2)>>)
    >>

\* isbn_patterns of the contact pass
ContactIsbnPatterns ==
    <<
      \* ISBN\s*[:\u0964-]?\s*(?:\d+[- ]?){4,}
      Cat(<<Lit(<<73, 83, 66, 78>>), RepInf(Cls(Whitespace), 0), Opt(Cls({58,
          2404, 45})), RepInf(Cls(Whitespace), 0),
          RepInf(Cat(<<RepInf(Cls(Digits), 1), Opt(Cls({45, 32}))>>), 4)>>),
      \* ISBN\s*\d*\s*[:\u0964-]?\s*(?:\d+[- ]?){4,}
      Cat(<<Lit(<<73, 83, 66, 78>>), RepInf(Cls(Whitespace), 0),
          RepInf(Cls(Digits), 0), RepInf(Cls(Whitespace), 0), Opt(Cls({58,
          2404, 45})), RepInf(Cls(Whitespace), 0),
          RepInf(Cat(<<RepInf(Cls(Digits), 1), Opt(Cls({45, 32}))>>), 4)>>),
      \* (?:\d{3}-\d{3}-\d{4}-\d{2}-\d{1})
      Cat(<<Rep(Cls(Digits), 3, 3), Lit(<<45>>), Rep(Cls(Digits), 3, 3),
          Lit(<<45>>), Rep(Cls(Digits), 4, 4), Lit(<<45>>), Rep(Cls(Digits),
          2, 2), Lit(<<45>>), Rep(Cls(Digits), 1, 1)>>),
      \* (?:\d{3}-\d{1}-\d{4}-\d{4}-\d{1})
      Cat(<<Rep(Cls(Digits), 3, 3), Lit(<<45>>), Rep(Cls(Digits), 1, 1),
          Lit(<<45>>), Rep(Cls(Digits), 4, 4), Lit(<<45>>), Rep(Cls(Digits),
          4, 4), Lit(<<45>>), Rep(Cls(Digits), 1, 1)>>)
    >>

\* ref_patterns of is_reference_number
RefPatterns ==
    <<
      \* No\.\s*\d+/[A-Z]+/\d+/\d+
      Cat(<<Lit(<<78, 111, 46>>), RepInf(Cls(Whitespace), 0),
          RepInf(Cls(Digits), 1), Lit(<<47>>), RepInf(Cls((65..90)), 1),
          Lit(<<47>>), RepInf(Cls(Digits), 1), Lit(<<47>>),
          RepInf(Cls(Digits), 1)>>),
      \* [A-Z]+/\d+/[A-Z]+/\d+
      Cat(<<RepInf(Cls((65..90)), 1), Lit(<<47>>), RepInf(Cls(Digits), 1),
          Lit(<<47>>), RepInf(Cls((65..90)), 1), Lit(<<47>>),
          RepInf(Cls(Digits), 1)>>)
    >>

\* (?<!ISBN\s*[:\u0964-]\s*), the first lookbehind of every price pattern
NotAfterIsbnLabel ==
    NegBehind(Cat(<<Lit(<<73, 83, 66, 78>>), RepInf(Cls(Whitespace), 0),
        Cls({58, 2404, 45}), RepInf(Cls(Whitespace), 0)>>))

\* (?<!ISBN\s*\d*\s*[:\u0964-]\s*), the second lookbehind of every price pattern
NotAfterIsbnNumberLabel ==
    NegBehind(Cat(<<Lit(<<73, 83, 66, 78>>), RepInf(Cls(Whitespace), 0),
        RepInf(Cls(Digits), 0), RepInf(Cls(Whitespace), 0), Cls({58, 2404,
        45}), RepInf(Cls(Whitespace), 0)>>))

\* (?!\s*ISBN)
NoIsbnNext ==
    NegAhead(Cat(<<RepInf(Cls(Whitespace), 0), Lit(<<73, 83, 66, 78>>)>>))

\* (?!.*ISBN)
NoIsbnLater ==
    NegAhead(Cat(<<RepInf(NCls({10}), 0), Lit(<<73, 83, 66, 78>>)>>))

\* price_patterns (lines 620-636)
PricePatterns ==
    <<
      \* (?<!ISBN\s*[:\u0964-]\s*)(?<!ISBN\s*\d*\s*[:\u0964-]\s*)\u09AE\u09C2\u09B2\u09CD\u09AF\s*[:\u0964].*
      Cat(<<NotAfterIsbnLabel, NotAfterIsbnNumberLabel, Lit(<<2478, 2498,
          2482, 2509, 2479>>), RepInf(Cls(Whitespace), 0), Cls({58, 2404}),
          RepInf(NCls({10}), 0)>>),
      \* (?<!ISBN\s*[:\u0964-]\s*)(?<!ISBN\s*\d*\s*[:\u0964-]\s*)g~j\u00A8\s*[:\u0964].*
      Cat(<<NotAfterIsbnLabel, NotAfterIsbnNumberLabel, Lit(<<103, 126, 106,
          168>>), RepInf(Cls(Whitespace), 0), Cls({58, 2404}),
          RepInf(NCls({10}), 0)>>),
      \* (?<!ISBN\s*[:\u0964-]\s*)(?<!ISBN\s*\d*\s*[:\u0964-]\s*)\u09A6\u09BE\u09AE\s*[:\u0964].*
      Cat(<<NotAfterIsbnLabel, NotAfterIsbnNumberLabel, Lit(<<2470, 2494,
          2478>>), RepInf(Cls(Whitespace), 0), Cls({58, 2404}),
          RepInf(NCls({10}), 0)>>),
      \* (?<!ISBN\s*[:\u0964-]\s*)(?<!ISBN\s*\d*\s*[:\u0964-]\s*)`vg\s*[:\u0964].*
      Cat(<<NotAfterIsbnLabel, NotAfterIsbnNumberLabel, Lit(<<96, 118,
          103>>), RepInf(Cls(Whitespace), 0), Cls({58, 2404}),
          RepInf(NCls({10}), 0)>>),
      \* (?<!ISBN\s*[:\u0964-]\s*)(?<!ISBN\s*\d*\s*[:\u0964-]\s*)\u099F\u09BE\u0995\u09BE\s*\u09AE\u09BE\u09A4\u09CD\u09B0
      Cat(<<NotAfterIsbnLabel, NotAfterIsbnNumberLabel, Lit(<<2463, 2494,
          2453, 2494>>), RepInf(Cls(Whitespace), 0), Lit(<<2478, 2494, 2468,
          2509, 2480>>)>>),
      \* (?<!ISBN\s*[:\u0964-]\s*)(?<!ISBN\s*\d*\s*[:\u0964-]\s*)UvKv\s*gv\u00CE
      Cat(<<NotAfterIsbnLabel, NotAfterIsbnNumberLabel, Lit(<<85, 118, 75,
          118>>), RepInf(Cls(Whitespace), 0), Lit(<<103, 118, 206>>)>>),
      \* (?<!ISBN\s*[:\u0964-]\s*)(?<!ISBN\s*\d*\s*[:\u0964-]\s*)\u09AE\u09C2\u09B2\u09CD\u09AF\u0983
      Cat(<<NotAfterIsbnLabel, NotAfterIsbnNumberLabel, Lit(<<2478, 2498,
          2482, 2509, 2479, 2435>>)>>),
      \* (?<!ISBN\s*[:\u0964-]\s*)(?<!ISBN\s*\d*\s*[:\u0964-]\s*)g~j\u00A8t
      Cat(<<NotAfterIsbnLabel, NotAfterIsbnNumberLabel, Lit(<<103, 126, 106,
          168, 116>>)>>),
      \* (?<!ISBN\s*[:\u0964-]\s*)(?<!ISBN\s*\d*\s*[:\u0964-]\s*)Price\s*:(?!.*ISBN).*
      Cat(<<NotAfterIsbnLabel, NotAfterIsbnNumberLabel, Lit(<<80, 114, 105,
          99, 101>>), RepInf(Cls(Whitespace), 0), Lit(<<58>>), NoIsbnLater,
          RepInf(NCls({10}), 0)>>),
      \* (?<!ISBN\s*[:\u0964-]\s*)(?<!ISBN\s*\d*\s*[:\u0964-]\s*)\d+\s*\u099F\u09BE\u0995\u09BE(?!\s*ISBN)
      Cat(<<NotAfterIsbnLabel, NotAfterIsbnNumberLabel, RepInf(Cls(Digits),
          1), RepInf(Cls(Whitespace), 0), Lit(<<2463, 2494, 2453, 2494>>),
          NoIsbnNext>>),
      \* (?<!ISBN\s*[:\u0964-]\s*)(?<!ISBN\s*\d*\s*[:\u0964-]\s*)\d+\s*UvKv(?!\s*ISBN)
      Cat(<<NotAfterIsbnLabel, NotAfterIsbnNumberLabel, RepInf(Cls(Digits),
          1), RepInf(Cls(Whitespace), 0), Lit(<<85, 118, 75, 118>>),
          NoIsbnNext>>),
      \* (?<!ISBN\s*[:\u0964-]\s*)(?<!ISBN\s*\d*\s*[:\u0964-]\s*)Taka\s*:(?!.*ISBN).*
      Cat(<<NotAfterIsbnLabel, NotAfterIsbnNumberLabel, Lit(<<84, 97, 107,
          97>>), RepInf(Cls(Whitespace), 0), Lit(<<58>>), NoIsbnLater,
          RepInf(NCls({10}), 0)>>),
      \* (?<!ISBN\s*[:\u0964-]\s*)(?<!ISBN\s*\d*\s*[:\u0964-]\s*)(?:TK|Tk)\s*\.?\s*\d+(?!\s*ISBN)
      Cat(<<NotAfterIsbnLabel, NotAfterIsbnNumberLabel, Alt(<<Lit(<<84,
          75>>), Lit(<<84, 107>>)>>), RepInf(Cls(Whitespace), 0),
          Opt(Lit(<<46>>)), RepInf(Cls(Whitespace), 0), RepInf(Cls(Digits),
          1), NoIsbnNext>>),
      \* (?<!ISBN\s*[:\u0964-]\s*)(?<!ISBN\s*\d*\s*[:\u0964-]\s*)\u09F3\s*\d+(?!\s*ISBN)
      Cat(<<NotAfterIsbnLabel, NotAfterIsbnNumberLabel, Lit(<<2547>>),
          RepInf(Cls(Whitespace), 0), RepInf(Cls(Digits), 1), NoIsbnNext>>),
      \* (?<!ISBN\s*[:\u0964-]\s*)(?<!ISBN\s*\d*\s*[:\u0964-]\s*)\.{3,}\s*\d+\s*(?:\u099F\u09BE\u0995\u09BE|UvKv|Taka|TK|Tk)?(?!\s*ISBN)
      Cat(<<NotAfterIsbnLabel, NotAfterIsbnNumberLabel, RepInf(Lit(<<46>>),
          3), RepInf(Cls(Whitespace), 0), RepInf(Cls(Digits), 1),
          RepInf(Cls(Whitespace), 0), Opt(Alt(<<Lit(<<2463, 2494, 2453,
          2494>>), Lit(<<85, 118, 75, 118>>), Lit(<<84, 97, 107, 97>>),
          Lit(<<84, 75>>), Lit(<<84, 107>>)>>)), NoIsbnNext>>)
    >>

\* isbn_patterns of the price pass
PriceIsbnPatterns ==
    <<
      \* ISBN\s*[:\u0964-]?\s*\d[\d\-]*
      Cat(<<Lit(<<73, 83, 66, 78>>), RepInf(Cls(Whitespace), 0), Opt(Cls({58,
          2404, 45})), RepInf(Cls(Whitespace), 0), Cls(Digits),
          RepInf(Cls({45} \cup Digits), 0)>>),
      \* ISBN\s*[:\u0964-]?\s*\d[\d\s\-]*\d
      Cat(<<Lit(<<73, 83, 66, 78>>), RepInf(Cls(Whitespace), 0), Opt(Cls({58,
          2404, 45})), RepInf(Cls(Whitespace), 0), Cls(Digits),
          RepInf(Cls({45} \cup Digits \cup Whitespace), 0), Cls(Digits)>>),
      \* ISBN\s*\d*\s*[:\u0964-]?\s*\d[\d\-]*
      Cat(<<Lit(<<73, 83, 66, 78>>), RepInf(Cls(Whitespace), 0),
          RepInf(Cls(Digits), 0), RepInf(Cls(Whitespace), 0), Opt(Cls({58,
          2404, 45})), RepInf(Cls(Whitespace), 0), Cls(Digits),
          RepInf(Cls({45} \cup Digits), 0)>>)
    >>


----------------------------------------------------------------------------
(* Contact-detail pass                                                     *)

\* is_date
IsDate(text) == \E k \in 1..Len(DatePatterns) : Search(DatePatterns[k], text, TRUE)

\* is_isbn of _remove_contact_details
IsIsbnContact(text) ==
    \E k \in 1..Len(ContactIsbnPatterns) : Search(ContactIsbnPatterns[k], text, TRUE)

\* is_reference_number (no IGNORECASE)
IsReferenceNumber(text) ==
    \E k \in 1..Len(RefPatterns) : Search(RefPatterns[k], text, FALSE)

\* patterns.values(), the phone list flattened: the order the patterns are tried
ContactPatterns ==
    PhonePatterns \o <<UrlPattern, EmailPattern, SocialPattern, WhatsappPattern>>

\* contains_contact_info
ContainsContactInfo(text) ==
    IF IsIsbnContact(text) \/ IsDate(text) \/ IsReferenceNumber(text) THEN FALSE
    ELSE \E k \in 1..Len(ContactPatterns) : Search(ContactPatterns[k], text, TRUE)

RECURSIVE Concat(_)
\* ''.join of a sequence of strings
Concat(ts) == IF ts = <<>> THEN <<>> ELSE Head(ts) \o Concat(Tail(ts))

\* paragraph.text: the text of the runs joined
ParagraphText(p) == Concat([r \in 1..Len(p.runs) |-> p.runs[r].text])

RECURSIVE DeleteSpansForward(_, _, _)
\* a variant that cuts the matches first to last, with the offsets found
\* before any cut
DeleteSpansForward(text, matches, k) ==
    IF k = 0 THEN text
    ELSE LET start == matches[Len(matches) - k + 1][1]
             end == matches[Len(matches) - k + 1][2]
         IN  DeleteSpansForward(SubSeq(text, 1, start) \o SubSeq(text, end + 1, Len(text)),
                                matches, k - 1)

RECURSIVE DeleteSpans(_, _, _)
\* lines 581-583: for match in reversed(matches): cut new_text[start:end]
DeleteSpans(text, matches, k) ==
    IF k = 0 THEN text
    ELSE LET start == matches[k][1]
             end == matches[k][2]
         IN  DeleteSpans(SubSeq(text, 1, start) \o SubSeq(text, end + 1, Len(text)),
                         matches, k - 1)

RECURSIVE ApplyContactPatterns(_, _, _)
\* lines 575-590 on one run: every pattern in turn on the text the earlier
\* ones left; the result is [text, changed]
ApplyContactPatterns(new_text, k, changed) ==
    IF k > Len(ContactPatterns) THEN [text |-> new_text, changed |-> changed]
    ELSE LET matches == FindIter(ContactPatterns[k], new_text, 0, TRUE)
         IN  IF matches # <<>>
             THEN ApplyContactPatterns(DeleteSpans(new_text, matches, Len(matches)),
                                       k + 1, TRUE)
             ELSE ApplyContactPatterns(new_text, k + 1, changed)

\* run.text = value: the run's content is cleared and replaced by the text
SetRunText(run, text) == [run EXCEPT !.text = text, !.pics = <<>>]

RunGuarded(run) ==
    IsIsbnContact(run.text) \/ IsDate(run.text) \/ IsReferenceNumber(run.text)

RECURSIVE RemoveFromRuns(_, _, _)
\* lines 569-593: has_changes is one flag for the whole paragraph
RemoveFromRuns(runs, r, has_changes) ==
    IF r > Len(runs) THEN runs
    ELSE IF RunGuarded(runs[r]) THEN RemoveFromRuns(runs, r + 1, has_changes)
    ELSE LET res == ApplyContactPatterns(runs[r].text, 1, FALSE)
             now == has_changes \/ res.changed
         IN  IF now
             THEN RemoveFromRuns([runs EXCEPT ![r] = SetRunText(@, Strip(res.text))],
                                 r + 1, now)
             ELSE RemoveFromRuns(runs, r + 1, now)

\* remove_contact_info
RemoveContactInfo(p) ==
    IF \E r \in 1..Len(p.runs) : RunGuarded(p.runs[r]) THEN p
    ELSE [p EXCEPT !.runs = RemoveFromRuns(p.runs, 1, FALSE)]

ContactOnParas(paras) ==
    [k \in 1..Len(paras) |->
        IF ContainsContactInfo(ParagraphText(paras[k]))
        THEN RemoveContactInfo(paras[k]) ELSE paras[k]]

\* _remove_contact_details
RemoveContactDetails(d) ==
    [d EXCEPT
        !.body = ContactOnParas(d.body),
        !.tables = [t \in 1..Len(d.tables) |->
                      [c \in 1..Len(d.tables[t]) |-> ContactOnParas(d.tables[t][c])]]]

----------------------------------------------------------------------------
(* Price-line pass                                                         *)

\* is_isbn of _remove_price_related_lines
IsIsbnPrice(text) ==
    \E k \in 1..Len(PriceIsbnPatterns) : Search(PriceIsbnPatterns[k], text, TRUE)

\* a variant of contains_price_info without the ISBN guard
ContainsPriceInfoUnguarded(text) ==
    \E k \in 1..Len(PricePatterns) : Search(PricePatterns[k], text, TRUE)

\* contains_price_info
ContainsPriceInfo(text) ==
    IF IsIsbnPrice(text) THEN FALSE
    ELSE \E k \in 1..Len(PricePatterns) : Search(PricePatterns[k], text, TRUE)

\* the paragraphs left once the marked ones are removed from their parent
PriceOnParas(paras) ==
    SelectSeq(paras, LAMBDA p : ~ContainsPriceInfo(ParagraphText(p)))

\* _remove_price_related_lines
RemovePriceRelatedLines(d) ==
    [d EXCEPT
        !.body = PriceOnParas(d.body),
        !.tables = [t \in 1..Len(d.tables) |->
                      [c \in 1..Len(d.tables[t]) |-> PriceOnParas(d.tables[t][c])]]]

----------------------------------------------------------------------------
(* Input documents.  The documents process() is run on are drawn from      *)
(* families, each varying one part of the tree over the cases the code     *)
(* distinguishes and keeping the rest at a plain default.                  *)

\* the most sections a document has
MaxSections == 2
\* the most runs a paragraph of the font family has
MaxRuns == 2

\* 'Hello'
TextHello == <<72, 101, 108, 108, 111>>
\* '2024'
TextYear == <<50, 48, 50, 52>>
\* '  '
TextBlank == <<32, 32>>
\* '\u09AC\u0987'
TextBengali == <<2476, 2439>>
\* '\u0643\u062A\u0627\u0628'
TextArabic == <<1603, 1578, 1575, 1576>>
\* '\u2020K'
TextLegacyMarker == <<8224, 75>>
\* '12-34-56-78 x'
TextCode == <<49, 50, 45, 51, 52, 45, 53, 54, 45, 55, 56, 32, 120>>
\* '12@#'
TextSymbols == <<49, 50, 64, 35>>
\* 'Sutonny MJ'
FontSutonnySpaced == <<83, 117, 116, 111, 110, 110, 121, 32, 77, 74>>
\* 'TIMES NEW ROMAN'
FontTimesUpper == <<84, 73, 77, 69, 83, 32, 78, 69, 87, 32, 82, 79, 77, 65, 78>>
\* 'Arial'
FontArial == <<65, 114, 105, 97, 108>>

NoHdrFtr == [ref |-> None, paras |-> <<>>]
NoWatermark == [background |-> FALSE, vml |-> FALSE, pict |-> FALSE,
                documentBackground |-> FALSE]
Margins(l, r, t, b) == [left |-> l, right |-> r, top |-> t, bottom |-> b]

\* a Letter-size portrait section with 1-inch margins, one column with the
\* usual spacing attribute, no header, footer, border or watermark
BaseSection ==
    [pgSz |-> [present |-> TRUE, orient |-> None, w |-> 12240, h |-> 15840],
     margins |-> Margins(Inches1, Inches1, Inches1, Inches1),
     pgBorders |-> FALSE,
     cols |-> [present |-> TRUE, num |-> None, space |-> "720", children |-> 0],
     header |-> NoHdrFtr,
     footer |-> NoHdrFtr,
     wm |-> NoWatermark]

\* a header or footer part holding one paragraph of text
OwnHdrFtr == [ref |-> "ok", paras |-> << Para(<<Run(TextHello, FontArial)>>) >>]

GeometrySections ==
    { [BaseSection EXCEPT !.pgSz = g.pgSz, !.margins = g.margins,
                          !.pgBorders = g.pgBorders] :
        g \in { [pgSz |-> [present |-> TRUE, orient |-> "landscape",
                           w |-> 16838, h |-> 11906],
                 margins |-> Margins(457200, 457200, 457200, 457200),
                 pgBorders |-> TRUE],
                [pgSz |-> NoPgSz,
                 margins |-> Margins(1143000, Inches1, Inches1, 0),
                 pgBorders |-> FALSE],
                [pgSz |-> [present |-> TRUE, orient |-> "portrait",
                           w |-> A4Width, h |-> A4Height],
                 margins |-> Margins(Inches1, Inches1, Inches1, Inches1),
                 pgBorders |-> TRUE] } }

ColumnSections ==
    { [BaseSection EXCEPT !.cols = NoCols] }
    \cup { [BaseSection EXCEPT !.cols = [present |-> TRUE, num |-> n,
                                         space |-> sp, children |-> ch]] :
             n \in {None, "", "1", "3", "two"}, sp \in {None, "720"},
             ch \in {0, 3} }

HeaderFooterSections ==
    { [BaseSection EXCEPT !.header = h, !.footer = f] :
        h \in {NoHdrFtr, OwnHdrFtr, [ref |-> "ok", paras |-> <<>>],
               [ref |-> "dangling", paras |-> <<>>]},
        f \in {NoHdrFtr, OwnHdrFtr, [ref |-> "dangling", paras |-> <<>>]} }

WatermarkSections ==
    { [BaseSection EXCEPT !.wm = w] :
        w \in [background : BOOLEAN, vml : BOOLEAN, pict : BOOLEAN,
               documentBackground : BOOLEAN] }

FirstSections ==
    GeometrySections \cup ColumnSections \cup HeaderFooterSections
        \cup WatermarkSections

\* a section whose footer reference has no relationship in the package
DanglingFooterSection == [BaseSection EXCEPT !.footer = [ref |-> "dangling", paras |-> <<>>]]

\* what a section after the first is drawn from
LaterSections ==
    { BaseSection,
      [BaseSection EXCEPT
          !.pgSz = [present |-> TRUE, orient |-> "landscape",
                    w |-> 16838, h |-> 11906],
          !.pgBorders = TRUE,
          !.cols = [present |-> TRUE, num |-> "3", space |-> "720",
                    children |-> 3],
          !.header = OwnHdrFtr,
          !.footer = OwnHdrFtr],
      DanglingFooterSection }

RECURSIVE SectionLists(_)
\* the section lists of n sections
SectionLists(n) ==
    IF n = 1 THEN { <<s>> : s \in FirstSections }
    ELSE { Append(q, s) : q \in SectionLists(n - 1), s \in LaterSections }

DefaultStyles ==
    << [kind |-> "paragraph", spacing |-> NoSpacing],
       [kind |-> "character", spacing |-> NoSpacing],
       [kind |-> "table", spacing |-> [present |-> TRUE, line |-> 480,
                                       rule |-> "auto"]],
       [kind |-> "numbering", spacing |-> NoSpacing] >>

DefaultBody == << Para(<<Run(TextHello, FontArial)>>) >>

Document(sections, body, tables) ==
    [sections |-> sections, body |-> body, tables |-> tables,
     styles |-> DefaultStyles]

BaseDocument == Document(<<BaseSection>>, DefaultBody, <<>>)

\* documents that differ in their sections
SectionDocs ==
    { Document(q, DefaultBody, <<>>) :
        q \in UNION { SectionLists(n) : n \in 1..MaxSections } }

FontTexts ==
    {<<>>, TextBlank, TextHello, TextYear, TextBengali, TextArabic,
     TextLegacyMarker, TextCode, TextSymbols}

FontNames ==
    {<<>>, NirmalaUI, Kalpurush, SutonnyMJ, FontSutonnySpaced, TimesNewRoman,
     FontTimesUpper, AlMajeedQuranic, FontArial}

FirstRuns == { Run(t, f) : t \in FontTexts, f \in FontNames }

\* what a run after the first is drawn from
LaterRuns == { Run(TextYear, NirmalaUI), Run(TextBengali, Kalpurush) }

RECURSIVE RunLists(_)
RunLists(n) ==
    IF n = 1 THEN { <<r>> : r \in FirstRuns }
    ELSE { Append(q, r) : q \in RunLists(n - 1), r \in LaterRuns }

\* tables of one cell each
FontTables ==
    { <<>>,
      << << << Para(<<Run(<<>>, NirmalaUI)>>) >> >> >>,
      << << << Para(<<Run(TextYear, Kalpurush)>>) >> >> >> }

\* documents that differ in the text and font of their runs
FontDocs ==
    { Document(<<BaseSection>>, << Para(q) >>, tb) :
        q \in UNION { RunLists(n) : n \in 1..MaxRuns }, tb \in FontTables }

\* Call 01712345678 now
ScrubPhone ==
    <<67, 97, 108, 108, 32, 48, 49, 55, 49, 50, 51, 52, 53, 54, 55, 56, 32,
      110, 111, 119>>
\* ISBN: 978-3-16-148410-0
ScrubIsbn ==
    <<73, 83, 66, 78, 58, 32, 57, 55, 56, 45, 51, 45, 49, 54, 45, 49, 52, 56,
      52, 49, 48, 45, 48>>
\* ISBN: 978-3-16-148410-0 Call 01712345678
ScrubIsbnPhone ==
    <<73, 83, 66, 78, 58, 32, 57, 55, 56, 45, 51, 45, 49, 54, 45, 49, 52, 56,
      52, 49, 48, 45, 48, 32, 67, 97, 108, 108, 32, 48, 49, 55, 49, 50, 51,
      52, 53, 54, 55, 56>>
\* ISBN: 978-3-16-148410-0 Price: 200
ScrubIsbnPrice ==
    <<73, 83, 66, 78, 58, 32, 57, 55, 56, 45, 51, 45, 49, 54, 45, 49, 52, 56,
      52, 49, 48, 45, 48, 32, 80, 114, 105, 99, 101, 58, 32, 50, 48, 48>>
\* 978-984-8765-12-3 Price: 200
ScrubBareIsbnPrice ==
    <<57, 55, 56, 45, 57, 56, 52, 45, 56, 55, 54, 53, 45, 49, 50, 45, 51, 32,
      80, 114, 105, 99, 101, 58, 32, 50, 48, 48>>
\* 978-984-8765-12-3 Call 01712345678
ScrubBareIsbnPhone ==
    <<57, 55, 56, 45, 57, 56, 52, 45, 56, 55, 54, 53, 45, 49, 50, 45, 51, 32,
      67, 97, 108, 108, 32, 48, 49, 55, 49, 50, 51, 52, 53, 54, 55, 56>>
\* ISBN: 12 Call 01712345678
ScrubShortIsbnPhone ==
    <<73, 83, 66, 78, 58, 32, 49, 50, 32, 67, 97, 108, 108, 32, 48, 49, 55,
      49, 50, 51, 52, 53, 54, 55, 56>>
\* Price: 200
ScrubPrice == <<80, 114, 105, 99, 101, 58, 32, 50, 48, 48>>
\* 12-05-24 call +8801712345678
ScrubDatePhone ==
    <<49, 50, 45, 48, 53, 45, 50, 52, 32, 99, 97, 108, 108, 32, 43, 56, 56,
      48, 49, 55, 49, 50, 51, 52, 53, 54, 55, 56>>
\* mail a.b@ex.com ok
ScrubEmail ==
    <<109, 97, 105, 108, 32, 97, 46, 98, 64, 101, 120, 46, 99, 111, 109, 32,
      111, 107>>
\* \u09AE\u09C2\u09B2\u09CD\u09AF: \u09E8\u09E6\u09E6
ScrubBengaliPrice ==
    <<2478, 2498, 2482, 2509, 2479, 58, 32, 2536, 2534, 2534>>
\* AB/12/CD/34 01712345678
ScrubRefPhone ==
    <<65, 66, 47, 49, 50, 47, 67, 68, 47, 51, 52, 32, 48, 49, 55, 49, 50, 51,
      52, 53, 54, 55, 56>>
\* Call 0171
ScrubPhoneHead == <<67, 97, 108, 108, 32, 48, 49, 55, 49>>
\* 2345678 now
ScrubPhoneTail == <<50, 51, 52, 53, 54, 55, 56, 32, 110, 111, 119>>
\*  next 
ScrubPadded == <<32, 110, 101, 120, 116, 32>>
\* 01712345678 or 01812345678
ScrubTwoPhones ==
    <<48, 49, 55, 49, 50, 51, 52, 53, 54, 55, 56, 32, 111, 114, 32, 48, 49,
      56, 49, 50, 51, 52, 53, 54, 55, 56>>
\* 01712345678
ScrubOnlyPhone == <<48, 49, 55, 49, 50, 51, 52, 53, 54, 55, 56>>

ScrubTexts ==
    {TextHello, ScrubPhone, ScrubIsbn, ScrubIsbnPhone, ScrubIsbnPrice,
     ScrubBareIsbnPrice, ScrubBareIsbnPhone, ScrubShortIsbnPhone, ScrubPrice,
     ScrubDatePhone, ScrubEmail, ScrubBengaliPrice, ScrubRefPhone,
     ScrubTwoPhones, ScrubOnlyPhone}

\* paragraphs of several runs: a number split over two runs, a number in the
\* first, the second or both runs, and a guarded run beside an unguarded one
ScrubRunLists ==
    { <<Run(ScrubPhoneHead, FontArial), Run(ScrubPhoneTail, FontArial)>>,
      <<Run(ScrubPhone, FontArial), Run(ScrubPadded, FontArial)>>,
      <<Run(ScrubPadded, FontArial), Run(ScrubPhone, FontArial)>>,
      <<Run(ScrubEmail, FontArial), Run(ScrubTwoPhones, FontArial)>>,
      <<Run(ScrubIsbn, FontArial), Run(ScrubPhone, FontArial)>>,
      <<Run(ScrubPhone, FontArial), Run(ScrubPrice, FontArial)>> }

ScrubFirstParas ==
    { Para(<<Run(t, FontArial)>>) : t \in ScrubTexts }
    \cup { Para(q) : q \in ScrubRunLists }

\* what the paragraph after the first is drawn from
ScrubLaterParas ==
    { Para(<<Run(TextHello, FontArial)>>), Para(<<Run(ScrubPrice, FontArial)>>),
      Para(<<Run(ScrubPhone, FontArial)>>) }

\* tables of one row
ScrubTables ==
    { <<>>,
      << << << Para(<<Run(ScrubPrice, FontArial)>>),
               Para(<<Run(ScrubIsbnPhone, FontArial)>>),
               Para(<<Run(ScrubBengaliPrice, FontArial)>>) >> >> >>,
      << << << Para(<<Run(ScrubPhone, FontArial)>>) >> >>,
         << << Para(<<Run(ScrubBareIsbnPrice, FontArial)>>),
               Para(<<Run(TextHello, FontArial)>>) >> >> >>,
      << << << Para(<<Run(ScrubPrice, FontArial)>>),
               Para(<<Run(ScrubBengaliPrice, FontArial)>>) >>,
            << Para(<<Run(TextHello, FontArial)>>) >> >> >> }

\* documents that differ in the text the scrubber sees
ScrubDocs ==
    { Document(<<BaseSection>>, <<p1, p2>>, tb) :
        p1 \in ScrubFirstParas, p2 \in ScrubLaterParas, tb \in ScrubTables }

\* a picture: the element path from its drawing container down to pic:pic,
\* and the container's wp:positionH
InlinePicture == [path |-> InlinePath, posH |-> NoPosH]
AnchorPicture(rel, al) ==
    [path |-> AnchorPath,
     posH |-> [present |-> TRUE, relativeFrom |-> rel, align |-> al]]

Pictures ==
    { InlinePicture, [path |-> AnchorPath, posH |-> NoPosH] }
    \cup { AnchorPicture(rel, al) :
             rel \in {"column", "margin", "page"},
             al \in {None, "left", "center"} }

ImageRun(text, pics) == [text |-> text, font |-> FontArial, pics |-> pics]

ImageParas ==
    { [runs |-> <<ImageRun(t, <<pic>>)>>, align |-> al, spacing |-> sp] :
        pic \in Pictures, t \in {<<>>, TextHello}, al \in {None, "left"},
        sp \in {NoSpacing,
                [present |-> TRUE, line |-> 480, rule |-> "exact"]} }

\* tables of one cell each
ImageTables ==
    { <<>>,
      << << << [Para(<<ImageRun(<<>>, <<AnchorPicture("page", "left")>>)>>)
                   EXCEPT !.align = "right"],
               Para(<<Run(TextHello, FontArial)>>) >> >> >> }

\* documents that differ in their pictures and paragraph formatting
ImageDocs ==
    { Document(<<BaseSection>>, <<p, Para(<<Run(TextHello, FontArial)>>)>>, tb) :
        p \in ImageParas, tb \in ImageTables }

InputDocs == SectionDocs \cup FontDocs \cup ScrubDocs \cup ImageDocs

----------------------------------------------------------------------------
(* process()                                                               *)

Paths == {"in.docx", "out.docx"}

EmptyDoc == [sections |-> <<>>, body |-> <<>>, tables |-> <<>>, styles |-> <<>>]

AbsentFile == [kind |-> "absent", doc |-> EmptyDoc]
CorruptFile == [kind |-> "corrupt", doc |-> EmptyDoc]
DocxFile(d) == [kind |-> "docx", doc |-> d]

\* what process() is run on: the file at input_path, the output path,
\* whether it can be written, and whether the temp dir's volume has room for
\* the working copy and the saved result ("ample") or for the copy only
Scenarios ==
    { [file |-> DocxFile(d), out |-> "out.docx", writable |-> TRUE,
       space |-> "ample"] : d \in InputDocs }
    \cup { [file |-> f, out |-> o, writable |-> w, space |-> sp] :
             f \in {AbsentFile, CorruptFile, DocxFile(BaseDocument),
                    DocxFile(Document(<<BaseSection, DanglingFooterSection>>,
                                      DefaultBody, <<>>))},
             o \in Paths, w \in BOOLEAN, sp \in {"ample", "one_file"} }

\* __init__, and the files process() finds
Init ==
    \E sc \in Scenarios :
        /\ pc = "copy_input"
        /\ input_path = "in.docx"
        /\ output_path = sc.out
        /\ out_writable = sc.writable
        /\ files = [p \in Paths |-> IF p = "in.docx" THEN sc.file ELSE AbsentFile]
        /\ files0 = files
        /\ temp_dir = [exists |-> TRUE, space |-> sc.space,
                       temp_input |-> AbsentFile, temp_output |-> AbsentFile]
        /\ doc = EmptyDoc
        /\ loaded = EmptyDoc
        /\ uses_nirmala_ui = FALSE
        /\ si = 1
        /\ raised = FALSE
        /\ detect_text = <<>>
        /\ detect_result = None

\* a variant of the exception path without the finally clause
RaiseWithoutFinally ==
    /\ pc' = "done"
    /\ raised' = TRUE

\* an exception leaves the try block: the except clause reports it, the
\* finally clause runs next
Raise ==
    /\ pc' = "cleanup"
    /\ raised' = TRUE

\* line 25: shutil.copy2(self.input_path, temp_input)
CopyInput ==
    /\ pc = "copy_input"
    /\ UNCHANGED <<detect_text, detect_result>>
    /\ IF files[input_path].kind = "absent"
       THEN Raise /\ UNCHANGED temp_dir
       ELSE /\ temp_dir' = [temp_dir EXCEPT !.temp_input = files[input_path]]
            /\ pc' = "load"
            /\ UNCHANGED raised
    /\ UNCHANGED <<files, files0, input_path, output_path, out_writable, doc, loaded,
                   uses_nirmala_ui, si>>

\* line 28: doc = Document(temp_input)
LoadDocument ==
    /\ pc = "load"
    /\ UNCHANGED <<detect_text, detect_result>>
    /\ IF temp_dir.temp_input.kind # "docx"
       THEN Raise /\ UNCHANGED <<doc, loaded>>
       ELSE /\ doc' = temp_dir.temp_input.doc
            /\ loaded' = temp_dir.temp_input.doc
            /\ pc' = "check_nirmala"
            /\ UNCHANGED raised
    /\ UNCHANGED <<files, files0, input_path, output_path, out_writable, temp_dir,
                   uses_nirmala_ui, si>>

\* line 31
CheckNirmala ==
    /\ pc = "check_nirmala"
    /\ UNCHANGED <<detect_text, detect_result>>
    /\ uses_nirmala_ui' = CheckForNirmalaUI(doc, uses_nirmala_ui)
    /\ pc' = "fonts"
    /\ UNCHANGED <<files, files0, input_path, output_path, out_writable, temp_dir, doc,
                   loaded, si, raised>>

\* line 34
Fonts ==
    /\ pc = "fonts"
    /\ UNCHANGED <<detect_text, detect_result>>
    /\ doc' = ProcessFonts(doc, uses_nirmala_ui)
    /\ pc' = "contact"
    /\ UNCHANGED <<files, files0, input_path, output_path, out_writable, temp_dir,
                   loaded, uses_nirmala_ui, si, raised>>

\* line 37
Contact ==
    /\ pc = "contact"
    /\ UNCHANGED <<detect_text, detect_result>>
    /\ doc' = RemoveContactDetails(doc)
    /\ pc' = "price"
    /\ UNCHANGED <<files, files0, input_path, output_path, out_writable, temp_dir,
                   loaded, uses_nirmala_ui, si, raised>>

\* line 40; the section loop starts at the first section
Price ==
    /\ pc = "price"
    /\ UNCHANGED <<detect_text, detect_result>>
    /\ doc' = RemovePriceRelatedLines(doc)
    /\ pc' = "sections"
    /\ si' = 1
    /\ UNCHANGED <<files, files0, input_path, output_path, out_writable, temp_dir,
                   loaded, uses_nirmala_ui, raised>>

\* lines 44-51 on section i: orientation, page size, margins
SectionGeometry(secs, i) ==
    [secs EXCEPT ![i] = SetMargins(SetPortraitOrientation(@))]

\* lines 67-77 on section i: borders, columns, watermark
SectionFurniture(secs, i) ==
    [secs EXCEPT ![i] = RemoveWatermark(ConvertToSingleColumn(RemovePageBorders(@)))]

\* the body of the section loop (lines 44-77) when nothing raises
ProcessSection(secs, i) ==
    SectionFurniture(
        RemoveHeaderFooter(
            RemoveHeaderFooter(SectionGeometry(secs, i), i, "header"),
            i, "footer"),
        i)

\* whether the body of the section loop raises on section i: only the header
\* and footer steps can, and nothing in the loop catches it
SectionRaises(secs, i) ==
    \/ HeaderFooterRaises(secs, i, "header")
    \/ HeaderFooterRaises(RemoveHeaderFooter(secs, i, "header"), i, "footer")

\* one iteration of the loop of lines 43-77
Section ==
    /\ pc = "sections"
    /\ UNCHANGED <<detect_text, detect_result>>
    /\ ~SectionRaises(doc.sections, si)
    /\ doc' = [doc EXCEPT !.sections = ProcessSection(@, si)]
    /\ si' = si + 1
    /\ pc' = IF si = Len(doc.sections) THEN "spacing" ELSE "sections"
    /\ UNCHANGED <<files, files0, input_path, output_path, out_writable, temp_dir,
                   loaded, uses_nirmala_ui, raised>>

\* an iteration whose header or footer step raises: the exception leaves the
\* loop and the try block
SectionFails ==
    /\ pc = "sections"
    /\ UNCHANGED <<detect_text, detect_result>>
    /\ SectionRaises(doc.sections, si)
    /\ doc' = [doc EXCEPT !.sections = SectionGeometry(@, si)]
    /\ Raise
    /\ UNCHANGED <<files, files0, input_path, output_path, out_writable, temp_dir,
                   loaded, uses_nirmala_ui, si>>

\* line 80
Spacing ==
    /\ pc = "spacing"
    /\ UNCHANGED <<detect_text, detect_result>>
    /\ doc' = SetLineSpacing(doc)
    /\ pc' = "images"
    /\ UNCHANGED <<files, files0, input_path, output_path, out_writable, temp_dir,
                   loaded, uses_nirmala_ui, si, raised>>

\* line 83
Images ==
    /\ pc = "images"
    /\ UNCHANGED <<detect_text, detect_result>>
    /\ doc' = ProcessImages(doc)
    /\ pc' = "save"
    /\ UNCHANGED <<files, files0, input_path, output_path, out_writable, temp_dir,
                   loaded, uses_nirmala_ui, si, raised>>

\* lines 86-87: doc.save(temp_output); an OSError when the volume is full
Save ==
    /\ pc = "save"
    /\ UNCHANGED <<detect_text, detect_result>>
    /\ IF temp_dir.space = "ample"
       THEN /\ temp_dir' = [temp_dir EXCEPT !.temp_output = DocxFile(doc)]
            /\ pc' = "copy_output"
            /\ UNCHANGED raised
       ELSE Raise /\ UNCHANGED temp_dir
    /\ UNCHANGED <<files, files0, input_path, output_path, out_writable, doc,
                   loaded, uses_nirmala_ui, si>>

\* line 90: shutil.copy2(temp_output, self.output_path)
CopyOutput ==
    /\ pc = "copy_output"
    /\ UNCHANGED <<detect_text, detect_result>>
    /\ IF out_writable
       THEN /\ files' = [files EXCEPT ![output_path] = temp_dir.temp_output]
            /\ pc' = "cleanup"
            /\ UNCHANGED raised
       ELSE Raise /\ UNCHANGED files
    /\ UNCHANGED <<files0, input_path, output_path, out_writable, temp_dir, doc,
                   loaded, uses_nirmala_ui, si>>

\* the finally clause: _cleanup_temp_files
Cleanup ==
    /\ pc = "cleanup"
    /\ UNCHANGED <<detect_text, detect_result>>
    /\ temp_dir' = [temp_dir EXCEPT !.exists = FALSE,
                                    !.temp_input = AbsentFile,
                                    !.temp_output = AbsentFile]
    /\ pc' = "done"
    /\ UNCHANGED <<files, files0, input_path, output_path, out_writable, doc, loaded,
                   uses_nirmala_ui, si, raised>>

Next ==
    \/ CopyInput
    \/ LoadDocument
    \/ CheckNirmala
    \/ Fonts
    \/ Contact
    \/ Price
    \/ Section
    \/ SectionFails
    \/ Spacing
    \/ Images
    \/ Save
    \/ CopyOutput
    \/ Cleanup

Spec == Init /\ [][Next]_vars

----------------------------------------------------------------------------
(* Properties of process()                                                 *)

\* process() got past line 90: the output file has been written
OutputWritten == pc \in {"cleanup", "done"} /\ ~raised

\* the document in the file at output_path
Output == files[output_path].doc

AllHdrFtrParas(d) ==
    UNION { { d.sections[i][hf].paras[k] : k \in 1..Len(d.sections[i][hf].paras) } :
              i \in 1..Len(d.sections), hf \in {"header", "footer"} }

AllCellParas(d) ==
    UNION { UNION { { d.tables[t][c][k] : k \in 1..Len(d.tables[t][c]) } :
                      c \in 1..Len(d.tables[t]) } :
              t \in 1..Len(d.tables) }

AllBodyParas(d) == { d.body[k] : k \in 1..Len(d.body) }

\* C1: whenever process() has written the output file, every section of the
\* output document is portrait, 11906 wide and 16838 high, has all four
\* margins at 1 inch and no page borders, whatever its geometry in the input.
C1_PortraitGeometry ==
    OutputWritten =>
        \A i \in 1..Len(Output.sections) :
            LET sec == Output.sections[i]
            IN  /\ sec.pgSz.present
                /\ sec.pgSz.orient = "portrait"
                /\ sec.pgSz.w = 11906
                /\ sec.pgSz.h = 16838
                /\ sec.margins = [left |-> Inches1, right |-> Inches1,
                                  top |-> Inches1, bottom |-> Inches1]
                /\ ~sec.pgBorders

\* C1 witness: an output was written for a two-section input whose first
\* section was landscape with borders and margins other than 1 inch
C1_Witness ==
    /\ OutputWritten
    /\ Len(loaded.sections) = 2
    /\ loaded.sections[1].pgSz.orient = "landscape"
    /\ loaded.sections[1].pgBorders
    /\ loaded.sections[1].margins.left # Inches1
    /\ loaded.sections[2].pgSz.orient = "landscape"

\* the column configuration the claim C2 promises: count 1 (declared, or the
\* default of an unset count), no spacing override, no per-column entries
SingleColumnNoOverrides(cols) ==
    /\ cols.num \in {None, "", "1"}
    /\ cols.space \in {None, "", "0"}
    /\ cols.children = 0

\* C2 as stated: whenever the output file has been written, every section of
\* the output has column count 1, no inter-column spacing override and no
\* per-column entries, for every input column configuration.
C2_AsStated ==
    OutputWritten =>
        \A i \in 1..Len(Output.sections) :
            SingleColumnNoOverrides(Output.sections[i].cols)

\* C2 amended: whenever the output file has been written, a section whose
\* declared column count in the input is greater than 1 has count 1, spacing
\* "0" if it had a non-empty spacing (else its spacing as it was) and no
\* per-column entries; every other section (count 1, 0, unset or not a
\* number, or no columns element) keeps its column configuration unchanged.
C2_SingleColumn ==
    OutputWritten =>
        /\ Len(Output.sections) = Len(loaded.sections)
        /\ \A i \in 1..Len(loaded.sections) :
              LET before == loaded.sections[i].cols
                  after == Output.sections[i].cols
              IN  IF before.present /\ before.num \in {"2", "3", "4"}
                  THEN /\ after.present
                       /\ after.num = "1"
                       /\ after.space = (IF before.space \in {None, ""}
                                         THEN before.space ELSE "0")
                       /\ after.children = 0
                  ELSE after = before

\* C2 witness: an output was written for an input with a 3-column section
\* carrying per-column entries
C2_Witness ==
    /\ OutputWritten
    /\ \E i \in 1..Len(loaded.sections) :
          /\ loaded.sections[i].cols.num = "3"
          /\ loaded.sections[i].cols.children = 3
          /\ loaded.sections[i].cols.space = "720"

\* C3 as stated: whenever the output file has been written, every section's
\* header and footer (the first section's included) are linked to previous and
\* hold no paragraphs, the spacing stage's traversal notwithstanding.
C3_AsStated ==
    OutputWritten =>
        \A i \in 1..Len(Output.sections) :
            \A hf \in {"header", "footer"} :
                /\ ~HasDefinition(Output.sections[i], hf)
                /\ Output.sections[i][hf].paras = <<>>

\* C4: whenever the output file has been written, every paragraph of the
\* output (body, table cells, headers and footers) and every style with a
\* paragraph format carries line spacing 1.15: w:spacing present with line 276
\* and lineRule auto.
C4_LineSpacing ==
    OutputWritten =>
        /\ \A p \in AllBodyParas(Output) \cup AllCellParas(Output)
                      \cup AllHdrFtrParas(Output) :
              p.spacing = [present |-> TRUE, line |-> 276, rule |-> "auto"]
        /\ \A k \in 1..Len(Output.styles) :
              Output.styles[k].kind \in {"paragraph", "table"} =>
                  Output.styles[k].spacing =
                      [present |-> TRUE, line |-> 276, rule |-> "auto"]

\* C4 witness: an output was written for an input with table cells, a body
\* paragraph with an exact 480 spacing and one with none, and sections whose
\* headers own no paragraphs
C4_Witness ==
    /\ OutputWritten
    /\ Len(loaded.tables) > 0
    /\ \E k \in 1..Len(loaded.body) :
          loaded.body[k].spacing = [present |-> TRUE, line |-> 480, rule |-> "exact"]
    /\ \E k \in 1..Len(loaded.body) : ~loaded.body[k].spacing.present
    /\ AllHdrFtrParas(Output) = {}

\* a floating placement: the picture sits in a wp:anchor
Floating(pic) == pic.path[1] = "anchor"

\* what claim C5 promises of a paragraph with a picture
CenteredPictures(p) ==
    /\ p.align = "center"
    /\ \A r \in 1..Len(p.runs) :
          \A k \in 1..Len(p.runs[r].pics) :
              LET pic == p.runs[r].pics[k]
              IN  Floating(pic) /\ pic.posH.present =>
                      /\ pic.posH.relativeFrom = "margin"
                      /\ pic.posH.align # None => pic.posH.align = "center"

\* C5 as stated: once the image stage has run, every body or table-cell
\* paragraph with a picture is centered and every floating picture in it is
\* positioned relative to the margin, with its alignment, if any, "center".
C5_AsStated ==
    pc = "save" =>
        \A p \in AllBodyParas(doc) \cup AllCellParas(doc) :
            HasImage(p) => CenteredPictures(p)

\* C6 as stated: the Nirmala UI check and the font substitution, run by a
\* fresh processor on the document a first run produced, leave every run's
\* font name as the first run left it.
C6_AsStated ==
    pc = "contact" =>
        ProcessFonts(doc, CheckForNirmalaUI(doc, FALSE)) = doc

\* the font the policy of claim C8 gives a run of the given script
TargetFont(flag, script) ==
    IF script = "arabic" THEN AlMajeedQuranic
    ELSE IF flag THEN Kalpurush
    ELSE IF script = "bengali" THEN SutonnyMJ
    ELSE TimesNewRoman

\* the skip rule: the run's current font already counts as its target
AlreadyTarget(flag, script, font) ==
    IF script = "arabic" THEN Lower(font) \in ArabicFontNames
    ELSE IF flag THEN font = Kalpurush
    ELSE IF script = "bengali" THEN Lower(font) \in BengaliFontNames
    ELSE Lower(font) \in EnglishFontNames

\* what claim C8 says of one run, before and after the substitution
FontPolicy(flag, before, after) ==
    /\ after.text = before.text
    /\ after.pics = before.pics
    /\ after.font =
          IF Strip(before.text) = <<>> THEN before.font
          ELSE IF AlreadyTarget(flag, DetectScript(before.text), before.font)
          THEN before.font
          ELSE TargetFont(flag, DetectScript(before.text))

\* FontPolicy on every run of two paragraph lists of the same shape
FontPolicyOnParas(flag, before, after) ==
    /\ Len(after) = Len(before)
    /\ \A k \in 1..Len(before) :
          /\ Len(after[k].runs) = Len(before[k].runs)
          /\ \A r \in 1..Len(before[k].runs) :
                FontPolicy(flag, before[k].runs[r], after[k].runs[r])

\* C8: with flag true iff some body or table-cell run of the document as
\* loaded has font 'Nirmala UI', after the font substitution every run with
\* non-whitespace text has the font the (flag, script) policy gives, a run
\* already in its target font (by the skip rule) keeps its font name, and a
\* run with empty or whitespace-only text keeps its font.
C8_FontPolicy ==
    pc = "contact" =>
        LET flag == \E run \in AllRuns(loaded) : run.font = NirmalaUI
        IN  /\ uses_nirmala_ui = flag
            /\ FontPolicyOnParas(flag, loaded.body, doc.body)
            /\ Len(doc.tables) = Len(loaded.tables)
            /\ \A t \in 1..Len(loaded.tables) :
                  /\ Len(doc.tables[t]) = Len(loaded.tables[t])
                  /\ \A c \in 1..Len(loaded.tables[t]) :
                        FontPolicyOnParas(flag, loaded.tables[t][c], doc.tables[t][c])

\* C8 witness: the substitution has run on a document whose only
\* 'Nirmala UI' run is an empty run in a table cell; a body run in Arial got
\* Kalpurush and the table run kept its font
C8_Witness ==
    /\ pc = "contact"
    /\ \A k \in 1..Len(loaded.body) :
          \A r \in 1..Len(loaded.body[k].runs) :
              loaded.body[k].runs[r].font # NirmalaUI
    /\ Len(loaded.tables) = 1
    /\ loaded.tables[1][1][1].runs[1].font = NirmalaUI
    /\ doc.tables[1][1][1].runs[1].font = NirmalaUI
    /\ loaded.body[1].runs[1].font = FontArial
    /\ loaded.body[1].runs[1].text = TextYear
    /\ doc.body[1].runs[1].font = Kalpurush

\* the texts of a paragraph's runs, in order
RunTexts(p) == [r \in 1..Len(p.runs) |-> p.runs[r].text]

\* both scrubber passes have run and no later stage has
Scrubbed == pc = "sections" /\ si = 1

\* every paragraph of before whose text contains an ISBN pattern is a
\* paragraph of after with the same run texts
IsbnParasKept(before, after) ==
    \A k \in 1..Len(before) :
        IsIsbnContact(ParagraphText(before[k])) =>
            \E j \in 1..Len(after) : RunTexts(after[j]) = RunTexts(before[k])

\* C7 as stated: a body or table-cell paragraph whose text contains an ISBN
\* pattern is still there with its run texts unchanged after the contact pass
\* and the price pass, whatever phone or price text it also contains.
C7_AsStated ==
    Scrubbed =>
        /\ IsbnParasKept(loaded.body, doc.body)
        /\ \A t \in 1..Len(loaded.tables) :
              \A c \in 1..Len(loaded.tables[t]) :
                  IsbnParasKept(loaded.tables[t][c], doc.tables[t][c])

C10_AsStated ==
    (pc = "done" /\ loaded # EmptyDoc /\ temp_dir.space = "ample" /\ out_writable)
        => ~raised /\ files[output_path] = DocxFile(doc)

\* the section loop has finished on every section
SectionsDone == pc = "spacing"

\* C11 as stated: for every section the removal of each of the five watermark
\* artifact types is attempted whatever the other removals do, so once the
\* section loop is through, every artifact whose removal raises nothing
\* (background fill, vector shapes, document background) is gone from every
\* section, although the removals of the legacy picture field and of the
\* header reference raise.
C11_AsStated ==
    SectionsDone =>
        /\ FindallRaises(".//w:pict") /\ FindallRaises(".//w:headerReference")
        /\ \A i \in 1..Len(doc.sections) :
              /\ ~doc.sections[i].wm.background
              /\ ~doc.sections[i].wm.vml
              /\ ~doc.sections[i].wm.documentBackground

\* C12 as stated: in every run of process(), at every point, the file at
\* input_path has the content process() found there, and no file outside the
\* temp dir other than the one at output_path is written.
C12_AsStated ==
    /\ files[input_path] = files0[input_path]
    /\ \A p \in Paths : p # output_path => files[p] = files0[p]

----------------------------------------------------------------------------
(* _detect_script called on its own                                        *)

\* the longest text made of DetectAlphabet characters
MaxTextLen == 3

\* one character of each kind _detect_script tells apart: space, a letter
\* (legacy set), a digit, '.', '@', the marker U+2020, the legacy-set
\* character U+00A8 (not a marker), a Bengali letter, the joiner U+200D, an
\* Arabic letter
DetectAlphabet == {32, 97, 49, 46, 64, 8224, 168, 2453, 8205, 1603}

\* 'a111111111'
LongTenPercent ==
    <<97, 49, 49, 49, 49, 49, 49, 49, 49, 49>>
\* 'a11111111'
LongOverTenPercent ==
    <<97, 49, 49, 49, 49, 49, 49, 49, 49>>
\* '\u00A81111111111'
LongLegacyUnderTenPercent ==
    <<168, 49, 49, 49, 49, 49, 49, 49, 49, 49, 49>>
\* 'a@1111111111111111111'
LongLetterAndSymbol ==
    <<97, 64, 49, 49, 49, 49, 49, 49, 49, 49, 49, 49, 49, 49, 49, 49, 49, 49, 49, 49, 49>>
\* '  a111111111  '
LongPaddedTenPercent ==
    <<32, 32, 97, 49, 49, 49, 49, 49, 49, 49, 49, 49, 32, 32>>
\* '\u06431111111111a'
LongArabicLetter ==
    <<1603, 49, 49, 49, 49, 49, 49, 49, 49, 49, 49, 97>>
\* '\u2020111111111111\u0643'
LongMarkerArabic ==
    <<8224, 49, 49, 49, 49, 49, 49, 49, 49, 49, 49, 49, 49, 1603>>

\* texts around the 10% threshold
LongTexts ==
    {LongTenPercent, LongOverTenPercent, LongLegacyUnderTenPercent,
     LongLetterAndSymbol, LongPaddedTenPercent, LongArabicLetter,
     LongMarkerArabic}

DetectTexts ==
    UNION { [1..n -> DetectAlphabet] : n \in 0..MaxTextLen } \cup LongTexts

InitDetect ==
    /\ pc = "detect"
    /\ detect_text \in DetectTexts
    /\ detect_result = None
    /\ input_path = "in.docx"
    /\ output_path = "out.docx"
    /\ out_writable = TRUE
    /\ files = [p \in Paths |-> IF p = "in.docx" THEN DocxFile(BaseDocument)
                                ELSE AbsentFile]
    /\ files0 = files
    /\ temp_dir = [exists |-> TRUE, space |-> "ample",
                   temp_input |-> AbsentFile, temp_output |-> AbsentFile]
    /\ doc = EmptyDoc
    /\ loaded = EmptyDoc
    /\ uses_nirmala_ui = FALSE
    /\ si = 1
    /\ raised = FALSE

\* self._detect_script(text) returns
DetectScriptCall ==
    /\ pc = "detect"
    /\ detect_result' = DetectScript(detect_text)
    /\ pc' = "detected"
    /\ UNCHANGED <<files, files0, input_path, output_path, out_writable, temp_dir,
                   doc, loaded, uses_nirmala_ui, si, raised, detect_text>>

NextDetect == DetectScriptCall

SpecDetect == InitDetect /\ [][NextDetect]_vars

\* the markers, the legacy set and the code-point blocks as claim C13 names them
LegacyMarkers == {8224, 352, 8225, 255, 169, 174}
LegacySet ==
    (65..90) \cup (97..122) \cup {8224, 352, 8225, 255} \cup (168..169)
        \cup (174..191) \cup (200..208) \cup (210..223)
Has(t, S) == \E i \in 1..Len(t) : t[i] \in S
Count(t, S) == Cardinality({i \in 1..Len(t) : t[i] \in S})
IsBlank(t) == \A i \in 1..Len(t) : t[i] \in Whitespace
PlainAsciiProse(t) ==
    \A i \in 1..Len(t) :
        \/ t[i] \in (48..57) \cup (65..90) \cup (97..122) \cup Whitespace
        \/ t[i] \in {46, 44, 33, 63, 39, 34, 40, 41, 45}

\* the first step of the ordered decision that applies to t, 1..7
DecidingStep(t) ==
    IF IsBlank(t) THEN 1
    ELSE IF Has(t, LegacyMarkers)
            \/ 10 * Count(t, LegacySet) > Len(Strip(t)) THEN 2
    ELSE IF Has(t, (2432..2559) \cup {8204, 8205}) THEN 3
    ELSE IF Has(t, (1536..1791) \cup (1872..1919) \cup (2208..2303)
                      \cup (64336..65023) \cup (65136..65279)) THEN 4
    ELSE IF PlainAsciiProse(t) THEN 5
    ELSE IF Count(t, LegacySet) > 0 THEN 6
    ELSE 7

\* C13: _detect_script returns on every text, with the value of the first
\* step that applies: 1 blank: english; 2 a legacy marker or legacy-set
\* characters over 10% of the stripped length: bengali; 3 a Unicode Bengali or
\* joiner code point: bengali; 4 an Arabic-block code point: arabic; 5 plain
\* ASCII prose: english; 6 some legacy-set character: bengali; 7 english.
C13_OrderedDecision ==
    pc = "detected" =>
        /\ detect_result \in {"bengali", "arabic", "english"}
        /\ detect_result =
              CASE DecidingStep(detect_text) \in {2, 3, 6} -> "bengali"
                [] DecidingStep(detect_text) = 4 -> "arabic"
                [] OTHER -> "english"

\* C13 witness: the call has returned bengali for a text with a legacy marker
\* and an Arabic letter, the earlier step winning
C13_Witness ==
    /\ pc = "detected"
    /\ Has(detect_text, LegacyMarkers)
    /\ Has(detect_text, {1603})
    /\ detect_result = "bengali"

----------------------------------------------------------------------------
(* Properties of the scrubber passes                                       *)

\* the text matches a price pattern and no ISBN guard of the price pass
PriceLine(t) ==
    /\ ~IsIsbnPrice(t)
    /\ \E k \in 1..Len(PricePatterns) : Search(PricePatterns[k], t, TRUE)

\* after is before without its price lines: the other paragraphs are all
\* there, in the same order, unchanged
PriceLinesRemoved(before, after) ==
    LET keep == {k \in 1..Len(before) : ~PriceLine(ParagraphText(before[k]))}
    IN  /\ Len(after) = Cardinality(keep)
        /\ \A k \in keep :
              after[Cardinality({j \in keep : j <= k})] = before[k]

\* C14: the price-line pass removes every body or table-cell paragraph whose
\* text matches a price pattern and no ISBN guard, and leaves every other
\* paragraph of the body and of each cell in place, in order and unchanged;
\* nothing else of the document changes.
C14_PriceLines ==
    [][pc = "price" =>
          /\ PriceLinesRemoved(doc.body, doc'.body)
          /\ Len(doc'.tables) = Len(doc.tables)
          /\ \A t \in 1..Len(doc.tables) :
                /\ Len(doc'.tables[t]) = Len(doc.tables[t])
                /\ \A c \in 1..Len(doc.tables[t]) :
                      PriceLinesRemoved(doc.tables[t][c], doc'.tables[t][c])
          /\ doc'.sections = doc.sections
          /\ doc'.styles = doc.styles]_vars

\* C14 witness: the pass has run on a document with a price line in the body
\* and a cell holding two price lines around a paragraph with an ISBN; the
\* cell is left with that one paragraph
C14_Witness ==
    /\ Scrubbed
    /\ Len(doc.body) < Len(loaded.body)
    /\ Len(loaded.tables) = 1
    /\ Len(loaded.tables[1][1]) = 3
    /\ Len(doc.tables[1][1]) = 1
    /\ IsIsbnPrice(ParagraphText(doc.tables[1][1][1]))

\* the characters of text outside every span, in their order
CopyUnmatched(text, matches) ==
    LET keep == {i \in 1..Len(text) :
                    \A m \in 1..Len(matches) :
                        ~(matches[m][1] < i /\ i <= matches[m][2])}
        Nth(j) == CHOOSE i \in keep : Cardinality({x \in keep : x <= i}) = j
    IN  [j \in 1..Cardinality(keep) |-> text[Nth(j)]]

RECURSIVE CopyThroughPatterns(_, _)
\* every contact pattern from the k-th on applied by forward copy, each on
\* the text the one before left
CopyThroughPatterns(text, k) ==
    IF k > Len(ContactPatterns) THEN text
    ELSE CopyThroughPatterns(
             CopyUnmatched(text, FindIter(ContactPatterns[k], text, 0, TRUE)), k + 1)

\* some contact pattern matches in the run's text as the loop reaches it
RunHasMatch(text) == CopyThroughPatterns(text, 1) # text

\* the paragraph goes through the run loop of remove_contact_info
Scrubbable(p) ==
    /\ ContainsContactInfo(ParagraphText(p))
    /\ \A r \in 1..Len(p.runs) : ~RunGuarded(p.runs[r])

\* before and after hold the same paragraphs; in a paragraph that goes through
\* the run loop every run is still there and a run with a match holds the
\* forward copy of its unmatched spans, trimmed
SpansDeleted(before, after) ==
    /\ Len(after) = Len(before)
    /\ \A k \in 1..Len(before) :
          Scrubbable(before[k]) =>
             /\ Len(after[k].runs) = Len(before[k].runs)
             /\ \A r \in 1..Len(before[k].runs) :
                   LET text == before[k].runs[r].text
                   IN  /\ \A n \in 1..Len(ContactPatterns) :
                             LET matches == FindIter(ContactPatterns[n], text, 0, TRUE)
                             IN  DeleteSpans(text, matches, Len(matches))
                                    = CopyUnmatched(text, matches)
                       /\ RunHasMatch(text) =>
                             after[k].runs[r].text
                                = Strip(CopyThroughPatterns(text, 1))

UnmatchedRunsKept(before, after) ==
    /\ Len(after) = Len(before)
    /\ \A k \in 1..Len(before) :
          /\ Len(after[k].runs) = Len(before[k].runs)
          /\ \A r \in 1..Len(before[k].runs) :
                ~RunHasMatch(before[k].runs[r].text) =>
                    after[k].runs[r].text = before[k].runs[r].text

\* C16: in the contact-detail pass a run that itself contains no span
\* matching any contact pattern keeps its text exactly, leading and trailing
\* whitespace included, whether or not an earlier run of the same paragraph
\* contained a match.
C16_AsStated ==
    [][pc = "contact" =>
          /\ UnmatchedRunsKept(doc.body, doc'.body)
          /\ \A t \in 1..Len(doc.tables) :
                \A c \in 1..Len(doc.tables[t]) :
                    UnmatchedRunsKept(doc.tables[t][c], doc'.tables[t][c])]_vars

\* the text matches one of the guards of the contact pass
ContactGuarded(t) == IsIsbnContact(t) \/ IsDate(t) \/ IsReferenceNumber(t)

\* no paragraph that is unguarded before and after holds a contact match
NoContactLeft(before, after) ==
    \A k \in 1..Len(after) :
        (/\ ~ContactGuarded(ParagraphText(before[k]))
         /\ ~ContactGuarded(ParagraphText(after[k])))
            => \A n \in 1..Len(ContactPatterns) :
                   ~Search(ContactPatterns[n], ParagraphText(after[k]), TRUE)

\* C17: after the contact-detail pass the concatenated text of every body or
\* table-cell paragraph that matches no guard contains no span matching any
\* contact pattern, also when the span straddles a boundary between two runs
\* or arises from joining the text around a deleted span.
C17_AsStated ==
    pc = "price" =>
        /\ NoContactLeft(loaded.body, doc.body)
        /\ \A t \in 1..Len(doc.tables) :
              \A c \in 1..Len(doc.tables[t]) :
                  NoContactLeft(loaded.tables[t][c], doc.tables[t][c])

\* C18: after the price-line pass every table cell still owns at least one
\* paragraph, even when every paragraph of the cell matched a price pattern.
C18_AsStated ==
    Scrubbed =>
        \A t \in 1..Len(doc.tables) :
            \A c \in 1..Len(doc.tables[t]) : Len(doc.tables[t][c]) >= 1

====
